---- MODULE Spec2Model ----
(***************************************************************************)
(* MindCare: the health-score, trend and day-streak calculators, the       *)
(* chatbot response selector and the "today" dashboard's load/save flow    *)
(* against the remote store.                                               *)
(*                                                                         *)
(* Numbers.  A JavaScript number is modelled as a record                   *)
(*   [k |-> "fin", n |-> numerator, d |-> denominator > 0]  (lowest terms) *)
(*   [k |-> "nan"], [k |-> "inf"], [k |-> "ninf"]  (n = 0, d = 1)          *)
(* so IEEE doubles are idealised as exact rationals plus NaN and the two   *)
(* infinities.  Dates are day numbers (the YYYY-MM-DD string of day D is   *)
(* the UTC midnight D*24, in hours since the epoch); instants are hours.   *)
(***************************************************************************)
EXTENDS Integers, Sequences, FiniteSets

VARIABLES
  entries,    \* the `entries` prop: HealthEntry[] handed to AdvancedStats,
              \* calculateDayStreak and HealthChatbot
  now,        \* the browser clock, in hours since the epoch (new Date())
  tzOffset,   \* the browser's UTC offset, in hours (local = UTC + tzOffset)
  stats,      \* what AdvancedStats last rendered
  values,     \* the argument of calculateTrend
  trend,      \* what calculateTrend returned for `values`
  input,      \* the chatbot's input text, a sequence of characters
  insight,    \* what generateInsight returned for `input`
  streak,     \* what calculateDayStreak returned for `entries`
  rows,       \* the store's health_entries table, in insertion order
  sess,       \* the UnifiedDashboardToday instances (browser sessions)
  chats,      \* the store's chats table, in insertion (created_at) order
  bot,        \* the HealthChatbot instances (browser tabs)
  store,      \* the store's journals, journal_entries and user_profiles
  read,       \* the last call of a read helper and what it returned
  scoreArg,   \* the `data` argument of the last computeHealthScore call
  score,      \* what computeHealthScore returned for `scoreArg`
  users,      \* the store's users table, in insertion order
  pages,      \* the createUser calls of the home page and the profile page
  memoryState,    \* the toast store's state: { toasts }
  toastTimeouts,  \* the pending removal timers of the toast store, by toast id
  count,      \* the toast store's id counter (genId)
  manager,    \* the JournalManager component and its calls in flight
  dialog      \* the EntryDialog component and what it handed to onSave

vars ==
  <<entries, now, tzOffset, stats, values, trend, input, insight, streak,
    rows, sess, chats, bot, store, read, scoreArg, score,
    users, pages, memoryState, toastTimeouts, count, manager, dialog>>

----------------------------------------------------------------------------
(* JavaScript numbers *)

Abs(x) == IF x < 0 THEN 0 - x ELSE x

RECURSIVE GCD(_, _)
GCD(a, b) == IF b = 0 THEN a ELSE GCD(b, a % b)

NaN == [k |-> "nan", n |-> 0, d |-> 1]
PosInf == [k |-> "inf", n |-> 0, d |-> 1]
NegInf == [k |-> "ninf", n |-> 0, d |-> 1]

\* the rational p/q (q # 0) in lowest terms with a positive denominator
Rat(p, q) ==
  LET g == GCD(Abs(p), Abs(q))
      s == IF q < 0 THEN 0 - 1 ELSE 1
  IN [k |-> "fin", n |-> (s * p) \div g, d |-> (s * q) \div g]

Num(i) == [k |-> "fin", n |-> i, d |-> 1]

IsFinite(x) == x.k = "fin"
IsInteger(x) == x.k = "fin" /\ x.d = 1
Sign(x) == CASE x.k = "inf" -> 1
             [] x.k = "ninf" -> 0 - 1
             [] x.k = "fin" -> (IF x.n > 0 THEN 1 ELSE IF x.n < 0 THEN 0 - 1 ELSE 0)
             [] OTHER -> 0

Signed(s) == IF s > 0 THEN PosInf ELSE IF s < 0 THEN NegInf ELSE NaN

\* a + b
JsAdd(a, b) ==
  CASE a.k = "nan" \/ b.k = "nan" -> NaN
    [] IsFinite(a) /\ IsFinite(b) -> Rat(a.n * b.d + b.n * a.d, a.d * b.d)
    [] IsFinite(a) -> b
    [] IsFinite(b) -> a
    [] OTHER -> IF a.k = b.k THEN a ELSE NaN

\* a * b
JsMul(a, b) ==
  CASE a.k = "nan" \/ b.k = "nan" -> NaN
    [] IsFinite(a) /\ IsFinite(b) -> Rat(a.n * b.n, a.d * b.d)
    [] OTHER -> Signed(Sign(a) * Sign(b))

JsNeg(a) == JsMul(a, Num(0 - 1))

\* a - b
JsSub(a, b) == JsAdd(a, JsNeg(b))

\* a / b   (x/0 is an infinity of the sign of x, 0/0 is NaN; every zero
\* that reaches a division here is +0)
JsDiv(a, b) ==
  CASE a.k = "nan" \/ b.k = "nan" -> NaN
    [] IsFinite(a) /\ IsFinite(b) ->
         IF b.n = 0 THEN Signed(Sign(a)) ELSE Rat(a.n * b.d, a.d * b.n)
    [] IsFinite(a) -> Num(0)
    [] IsFinite(b) -> Signed(Sign(a) * (IF b.n < 0 THEN 0 - 1 ELSE 1))
    [] OTHER -> NaN

\* a < b  (false when either is NaN)
JsLess(a, b) ==
  CASE a.k = "nan" \/ b.k = "nan" -> FALSE
    [] IsFinite(a) /\ IsFinite(b) -> a.n * b.d < b.n * a.d
    [] a.k = "ninf" -> b.k # "ninf"
    [] b.k = "inf" -> a.k # "inf"
    [] OTHER -> FALSE

\* a <= b  (false when either is NaN)
JsLeq(a, b) == a.k # "nan" /\ b.k # "nan" /\ ~JsLess(b, a)

\* Math.min with the cap lost: the first argument whatever the second
MathMinUncapped(a, b) == a

\* Math.min(a, b)
MathMin(a, b) ==
  IF a.k = "nan" \/ b.k = "nan" THEN NaN
  ELSE IF JsLess(b, a) THEN b ELSE a

\* Math.round(a): the nearest integer, halves towards +Infinity
MathRound(a) ==
  IF IsFinite(a) THEN Num((2 * a.n + a.d) \div (2 * a.d)) ELSE a

\* Math.floor(a)
MathFloor(a) == IF IsFinite(a) THEN Num(a.n \div a.d) ELSE a

\* a.reduce((x, y) => x + y, 0) over a sequence of numbers
RECURSIVE ReduceSum(_)
ReduceSum(s) ==
  IF s = <<>> THEN Num(0) ELSE JsAdd(ReduceSum(SubSeq(s, 1, Len(s) - 1)), s[Len(s)])

\* slice with the bounds lost: the whole sequence
SliceAll(s, from, to) == s

\* the slice with its elements in the opposite order
SliceReversed(s, from, to) ==
  LET hi == IF to > Len(s) THEN Len(s) ELSE to
  IN IF from >= hi THEN <<>> ELSE [i \in 1..(hi - from) |-> s[hi + 1 - i]]

\* a.slice(from, to), zero-based, `to` exclusive
Slice(s, from, to) ==
  LET hi == IF to > Len(s) THEN Len(s) ELSE to
  IN IF from >= hi THEN <<>> ELSE SubSeq(s, from + 1, hi)

\* a.map(f), f given as an operator
Map(f(_), s) == [i \in 1..Len(s) |-> f(s[i])]

----------------------------------------------------------------------------
(* JavaScript values that reach the calculators: a string, a number or     *)
(* undefined, all of one record shape.                                     *)

JsStr(text) == [t |-> "string", s |-> text, x |-> NaN]
JsNum(num) == [t |-> "number", s |-> "", x |-> num]
JsUndef == [t |-> "undefined", s |-> "", x |-> NaN]

\* the decimal texts the model uses, each with the number it denotes;
\* `canon` marks the text String(number) produces
Decimals ==
  { [text |-> "-1", num |-> Num(0 - 1), canon |-> TRUE],
    [text |-> "0", num |-> Num(0), canon |-> TRUE],
    [text |-> "3", num |-> Num(3), canon |-> TRUE],
    [text |-> "5", num |-> Num(5), canon |-> TRUE],
    [text |-> "7.5", num |-> Rat(15, 2), canon |-> TRUE],
    [text |-> "8", num |-> Num(8), canon |-> TRUE],
    [text |-> "08", num |-> Num(8), canon |-> FALSE],
    [text |-> "9", num |-> Num(9), canon |-> TRUE],
    [text |-> "12", num |-> Num(12), canon |-> TRUE],
    [text |-> "12.5", num |-> Rat(25, 2), canon |-> TRUE],
    [text |-> "24", num |-> Num(24), canon |-> TRUE],
    [text |-> "30", num |-> Num(30), canon |-> TRUE],
    [text |-> "90", num |-> Num(90), canon |-> TRUE],
    [text |-> "120", num |-> Num(120), canon |-> TRUE],
    [text |-> "2000", num |-> Num(2000), canon |-> TRUE] }

\* parseFloat(text): the number a decimal text denotes, NaN for any other
\* text (the empty string included)
parseFloat(text) ==
  IF \E p \in Decimals : p.text = text
  THEN (CHOOSE p \in Decimals : p.text = text).num
  ELSE NaN

\* parseInt(text) of a plain decimal text: its integer part
parseInt(text) ==
  LET x == parseFloat(text)
  IN IF IsFinite(x)
     THEN Num(IF x.n >= 0 THEN x.n \div x.d ELSE 0 - ((0 - x.n) \div x.d))
     ELSE NaN

\* String(num)
NumberToString(num) ==
  IF num.k = "nan" THEN "NaN"
  ELSE IF num.k = "inf" THEN "Infinity"
  ELSE IF num.k = "ninf" THEN "-Infinity"
  ELSE (CHOOSE p \in Decimals : p.canon /\ p.num = num).text

\* String(v)
JsString(v) ==
  CASE v.t = "string" -> v.s
    [] v.t = "number" -> NumberToString(v.x)
    [] OTHER -> "undefined"

\* the truthiness of v
Truthy(v) ==
  CASE v.t = "string" -> v.s # ""
    [] v.t = "number" -> v.x.k # "nan" /\ ~(v.x.k = "fin" /\ v.x.n = 0)
    [] OTHER -> FALSE

\* v || w
OrElse(v, w) == IF Truthy(v) THEN v ELSE w

----------------------------------------------------------------------------
(* Health score of one snapshot: UnifiedDashboardToday.computeHealthScore *)

Moods == {"excellent", "good", "neutral", "poor", "terrible"}

\* a mood table that scores every mood one point too low
moodMapShifted ==
  [excellent |-> 4, good |-> 3, neutral |-> 2, poor |-> 1, terrible |-> 0]

moodMap ==
  [excellent |-> 5, good |-> 4, neutral |-> 3, poor |-> 2, terrible |-> 1]

\* sourceData = [mood (a string, "" when unset), sleep_hours,
\* exercise_minutes, water_intake (JavaScript values)]
computeHealthScore(sourceData) ==
  LET moodVal == IF sourceData.mood \in DOMAIN moodMap
                 THEN Num(moodMap[sourceData.mood]) ELSE Num(3)
      sleepVal == parseFloat(JsString(OrElse(sourceData.sleep_hours, JsStr("0"))))
      exerciseVal == parseFloat(JsString(OrElse(sourceData.exercise_minutes, JsStr("0"))))
      waterVal == parseFloat(JsString(OrElse(sourceData.water_intake, JsStr("0"))))
      partMood == JsMul(JsDiv(moodVal, Num(5)), Num(30))
      partSleep == JsMul(MathMin(JsDiv(sleepVal, Num(8)), Num(1)), Num(25))
      partExercise == JsMul(MathMin(JsDiv(exerciseVal, Num(120)), Num(1)), Num(25))
      partWater == JsMul(MathMin(JsDiv(waterVal, Num(8)), Num(1)), Num(20))
      rawScore == JsAdd(JsAdd(JsAdd(partMood, partSleep), partExercise), partWater)
  IN MathRound(rawScore)

\* the argument storedScore passes: the stored entry's own fields
EntryData(e) ==
  [mood |-> e.mood,
   sleep_hours |-> JsNum(e.sleep_hours),
   exercise_minutes |-> JsNum(e.exercise_minutes),
   water_intake |-> JsNum(e.water_intake)]

----------------------------------------------------------------------------
(* Day streak: calculateDayStreak in user-profile.tsx *)

\* new Date('YYYY-MM-DD'): UTC midnight of the day
ParseDate(day) == day * 24

\* Date.setHours(0, 0, 0, 0): midnight of the same local calendar day
SetHoursZero(t, off) == ((t + off) \div 24) * 24 - off

\* toISOString().split('T')[0]: the UTC calendar day of an instant
IsoDateKey(t) == t \div 24

\* the first loop: normalise each entry's date and keep the first of
\* each date key
RECURSIVE UniqueDates(_, _)
UniqueDates(es, off) ==
  IF es = <<>> THEN <<>>
  ELSE LET before == UniqueDates(SubSeq(es, 1, Len(es) - 1), off)
           entryDate == SetHoursZero(ParseDate(es[Len(es)].entry_date), off)
           dateKey == IsoDateKey(entryDate)
       IN IF \E i \in 1..Len(before) : IsoDateKey(before[i]) = dateKey
          THEN before
          ELSE Append(before, entryDate)

\* the sort left out: the dates in their order of arrival
SortSkipped(ds) == ds

\* dateEntries.sort((a, b) => b - a), on distinct instants
RECURSIVE SortDescending(_)
SortDescending(ds) ==
  IF ds = <<>> THEN <<>>
  ELSE LET i == CHOOSE i \in 1..Len(ds) : \A j \in 1..Len(ds) : ds[j] <= ds[i]
       IN <<ds[i]>> \o SortDescending(SubSeq(ds, 1, i - 1) \o SubSeq(ds, i + 1, Len(ds)))

\* the counting loop from position i on, with the date it expects next
RECURSIVE CountStreak(_, _, _, _)
CountStreak(ds, i, checkDate, off) ==
  IF i > Len(ds) THEN 0
  ELSE IF SetHoursZero(ds[i], off) = SetHoursZero(checkDate, off)
       THEN 1 + CountStreak(ds, i + 1, checkDate - 24, off)
       ELSE 0

\* calculateDayStreak with the staleness test off by one (daysDiff > 2)
calculateDayStreakLax(es, clock, off) ==
  IF Len(es) = 0 THEN 0
  ELSE LET dateEntries == SortDescending(UniqueDates(es, off))
           today == SetHoursZero(clock, off)
           mostRecentDate == dateEntries[1]
           daysDiff == (today - mostRecentDate) \div 24
       IN IF Len(dateEntries) = 0 THEN 0
          ELSE IF daysDiff > 2 THEN 0
          ELSE CountStreak(dateEntries, 1, mostRecentDate, off)

calculateDayStreak(es, clock, off) ==
  IF Len(es) = 0 THEN 0
  ELSE LET dateEntries == SortDescending(UniqueDates(es, off))
           today == SetHoursZero(clock, off)
           mostRecentDate == dateEntries[1]
           daysDiff == (today - mostRecentDate) \div 24
       IN IF Len(dateEntries) = 0 THEN 0
          ELSE IF daysDiff > 1 THEN 0
          ELSE CountStreak(dateEntries, 1, mostRecentDate, off)

----------------------------------------------------------------------------
(* Trends and the aggregate score: AdvancedStats *)

\* calculateTrend splitting at Math.ceil(length / 2)
calculateTrendCeil(vs) ==
  IF Len(vs) < 2 THEN Num(0)
  ELSE LET half == (Len(vs) + 1) \div 2
           firstHalf == Slice(vs, 0, half)
           secondHalf == Slice(vs, half, Len(vs))
           firstAvg == JsDiv(ReduceSum(firstHalf), Num(Len(firstHalf)))
           secondAvg == JsDiv(ReduceSum(secondHalf), Num(Len(secondHalf)))
       IN JsMul(JsDiv(JsSub(secondAvg, firstAvg), firstAvg), Num(100))

calculateTrend(vs) ==
  IF Len(vs) < 2 THEN Num(0)
  ELSE LET half == Len(vs) \div 2
           firstHalf == Slice(vs, 0, half)
           secondHalf == Slice(vs, half, Len(vs))
           firstAvg == JsDiv(ReduceSum(firstHalf), Num(Len(firstHalf)))
           secondAvg == JsDiv(ReduceSum(secondHalf), Num(Len(secondHalf)))
       IN JsMul(JsDiv(JsSub(secondAvg, firstAvg), firstAvg), Num(100))

\* moodValues[entry.mood] || 3
MoodScore(e) == IF e.mood \in DOMAIN moodMap THEN Num(moodMap[e.mood]) ELSE Num(3)
SleepOf(e) == e.sleep_hours
ExerciseOf(e) == e.exercise_minutes
WaterOf(e) == e.water_intake

\* getTrendIcon / getTrendColor: which of the three looks a trend gets
getTrendIcon(t) ==
  IF JsLess(Num(5), t) THEN "up"
  ELSE IF JsLess(t, Num(0 - 5)) THEN "down"
  ELSE "flat"

NoStats ==
  [shown |-> FALSE, dayStreak |-> 0, healthScore |-> Num(0),
   moodTrend |-> Num(0), sleepTrend |-> Num(0),
   exerciseTrend |-> Num(0), waterTrend |-> Num(0)]

AdvancedStats(es, clock, off) ==
  IF Len(es) = 0 THEN NoStats
  ELSE LET last30Days == Slice(es, 0, 30)
           moodScores == Map(MoodScore, last30Days)
           avgMood == JsDiv(ReduceSum(moodScores), Num(Len(moodScores)))
           sleepHours == Map(SleepOf, last30Days)
           avgSleep == JsDiv(ReduceSum(sleepHours), Num(Len(sleepHours)))
           exerciseMinutes == Map(ExerciseOf, last30Days)
           totalExercise == ReduceSum(exerciseMinutes)
           waterIntake == Map(WaterOf, last30Days)
           avgWater == JsDiv(ReduceSum(waterIntake), Num(Len(waterIntake)))
           healthScore ==
             MathRound(
               JsAdd(JsAdd(JsAdd(
                 JsMul(JsDiv(avgMood, Num(5)), Num(30)),
                 JsMul(MathMin(JsDiv(avgSleep, Num(8)), Num(1)), Num(25))),
                 JsMul(MathMin(JsDiv(totalExercise, Num(1500)), Num(1)), Num(25))),
                 JsMul(MathMin(JsDiv(avgWater, Num(8)), Num(1)), Num(20))))
       IN [shown |-> TRUE,
           dayStreak |-> calculateDayStreak(es, clock, off),
           healthScore |-> healthScore,
           moodTrend |-> calculateTrend(moodScores),
           sleepTrend |-> calculateTrend(sleepHours),
           exerciseTrend |-> calculateTrend(exerciseMinutes),
           waterTrend |-> calculateTrend(waterIntake)]

----------------------------------------------------------------------------
(* Chatbot response selector: healthInsights and generateInsight.  A text  *)
(* the selector scans is a sequence of one-character strings.              *)

healthInsights ==
  <<
    [trigger |-> <<
        <<"s", "l", "e", "e", "p">>,
        <<"t", "i", "r", "e", "d">>,
        <<"e", "x", "h", "a", "u", "s", "t", "e", "d">>,
        <<"i", "n", "s", "o", "m", "n", "i", "a">>>>,
     response |-> "I notice you've been tracking your sleep patterns. Based on your data, here are some insights about your sleep quality and suggestions for improvement.",
     suggestions |-> <<"How can I improve my sleep?", "What affects my sleep quality?", "Sleep hygiene tips">>],
    [trigger |-> <<
        <<"m", "o", "o", "d">>,
        <<"d", "e", "p", "r", "e", "s", "s", "e", "d">>,
        <<"a", "n", "x", "i", "o", "u", "s">>,
        <<"s", "t", "r", "e", "s", "s">>,
        <<"s", "a", "d">>>>,
     response |-> "I see you're discussing your mood and mental health. Your diary entries show patterns that we can explore together.",
     suggestions |-> <<"How is my mood trending?", "What affects my mood?", "Mental health resources">>],
    [trigger |-> <<
        <<"e", "x", "e", "r", "c", "i", "s", "e">>,
        <<"w", "o", "r", "k", "o", "u", "t">>,
        <<"f", "i", "t", "n", "e", "s", "s">>,
        <<"a", "c", "t", "i", "v", "i", "t", "y">>>>,
     response |-> "Great to hear about your physical activity! Let me analyze your exercise patterns and provide some insights.",
     suggestions |-> <<"Exercise recommendations", "How does exercise affect my mood?", "Fitness goals">>],
    [trigger |-> <<
        <<"n", "u", "t", "r", "i", "t", "i", "o", "n">>,
        <<"d", "i", "e", "t">>,
        <<"f", "o", "o", "d">>,
        <<"e", "a", "t", "i", "n", "g">>,
        <<"m", "e", "a", "l">>>>,
     response |-> "Nutrition plays a crucial role in your overall health. Let me help you understand the connection between your diet and well-being.",
     suggestions |-> <<"Nutritional insights", "How does food affect my energy?", "Healthy eating tips">>]
  >>

\* one character of String.prototype.toLowerCase
LowerChar(c) ==
  CASE c = "A" -> "a"
    [] c = "B" -> "b"
    [] c = "C" -> "c"
    [] c = "D" -> "d"
    [] c = "E" -> "e"
    [] c = "F" -> "f"
    [] c = "G" -> "g"
    [] c = "H" -> "h"
    [] c = "I" -> "i"
    [] c = "J" -> "j"
    [] c = "K" -> "k"
    [] c = "L" -> "l"
    [] c = "M" -> "m"
    [] c = "N" -> "n"
    [] c = "O" -> "o"
    [] c = "P" -> "p"
    [] c = "Q" -> "q"
    [] c = "R" -> "r"
    [] c = "S" -> "s"
    [] c = "T" -> "t"
    [] c = "U" -> "u"
    [] c = "V" -> "v"
    [] c = "W" -> "w"
    [] c = "X" -> "x"
    [] c = "Y" -> "y"
    [] c = "Z" -> "z"
    [] OTHER -> c

\* text.toLowerCase()
toLowerCase(text) == [i \in 1..Len(text) |-> LowerChar(text[i])]

\* text.includes(part)
includes(text, part) ==
  \E i \in 0..(Len(text) - Len(part)) : SubSeq(text, i + 1, i + Len(part)) = part

\* insight.trigger.some(trigger => lowerMessage.includes(trigger))
TriggerSome(group, lowerMessage) ==
  \E t \in 1..Len(group.trigger) : includes(lowerMessage, group.trigger[t])

\* the last matching insight instead of the first (a findLast)
RECURSIVE FindInsightLast(_, _)
FindInsightLast(lowerMessage, i) ==
  IF i > Len(healthInsights) THEN 0
  ELSE LET later == FindInsightLast(lowerMessage, i + 1)
       IN IF later # 0 THEN later
          ELSE IF TriggerSome(healthInsights[i], lowerMessage) THEN i ELSE 0

\* Array.prototype.find over healthInsights from index i on: the index of
\* the first insight with a matching trigger, 0 for undefined
RECURSIVE FindInsight(_, _)
FindInsight(lowerMessage, i) ==
  IF i > Len(healthInsights) THEN 0
  ELSE IF TriggerSome(healthInsights[i], lowerMessage) THEN i
  ELSE FindInsight(lowerMessage, i + 1)

\* x.toFixed(1), as the number the printed text denotes
ToFixed1(x) == IF IsFinite(x) THEN JsDiv(MathRound(JsMul(x, Num(10))), Num(10)) ELSE x

FallbackSuggestions ==
  <<"Tell me more about my sleep patterns",
    "How can I improve my mood?",
    "What exercise routine would work for me?",
    "Show me my health trends">>

\* The result of generateInsight: `response` is the reply as the sequence
\* of the fragments the code concatenates, `hours` the average the sleep
\* fragment prints (NaN when no sleep fragment is part of the reply).
generateInsight(userMessage, es) ==
  LET lowerMessage == toLowerCase(userMessage)
      matchedInsight == FindInsight(lowerMessage, 1)
      recentEntries == Slice(es, 0, 7)
      avgMood == IF Len(recentEntries) > 0
                 THEN JsDiv(ReduceSum(Map(MoodScore, recentEntries)),
                            Num(Len(recentEntries)))
                 ELSE Num(3)
      avgSleep == IF Len(recentEntries) > 0
                  THEN JsDiv(ReduceSum(Map(SleepOf, recentEntries)),
                             Num(Len(recentEntries)))
                  ELSE Num(0)
      totalExercise == ReduceSum(Map(ExerciseOf, recentEntries))
      moodPart == IF JsLeq(Num(4), avgMood)
                  THEN <<"Your mood has been quite positive recently! ">>
                  ELSE IF JsLeq(avgMood, Num(2))
                  THEN <<"I notice your mood has been lower lately. ">>
                  ELSE <<"Your mood has been fairly stable. ">>
      sleepPart == IF JsLeq(Num(7), avgSleep)
                   THEN <<"Your sleep quality looks good with an average of ",
                          " hours. ">>
                   ELSE IF JsLess(avgSleep, Num(6))
                   THEN <<"Your sleep might need attention - averaging ",
                          " hours. ">>
                   ELSE <<>>
      exercisePart == IF JsLess(Num(150), totalExercise)
                      THEN <<"Great job staying active! ">>
                      ELSE IF JsLess(totalExercise, Num(60))
                      THEN <<"Consider adding more physical activity to your routine. ">>
                      ELSE <<>>
  IN IF matchedInsight # 0
     THEN [response |-> <<healthInsights[matchedInsight].response>>,
           hours |-> NaN,
           suggestions |-> healthInsights[matchedInsight].suggestions]
     ELSE [response |->
             <<"Based on your recent health data, here's what I've observed:">>
             \o moodPart \o sleepPart \o exercisePart
             \o <<"Would you like me to dive deeper into any specific area?">>,
           hours |-> IF sleepPart = <<>> THEN NaN ELSE ToFixed1(avgSleep),
           suggestions |-> FallbackSuggestions]

\* no reply yet; a reply is kept with the context the code stores with it
\* (context_data: the user's message, the number of entries)
NoInsight ==
  [user_message |-> <<>>, entries_count |-> 0,
   result |-> [response |-> <<>>, hours |-> NaN, suggestions |-> <<>>]]

----------------------------------------------------------------------------
(* The store's health_entries table and its helpers (dbHelpers).  A row's  *)
(* id is its insertion position; SQL NULL is "" in a text column and       *)
(* NullNum in a numeric one.                                               *)

NullNum == [k |-> "null", n |-> 0, d |-> 1]

Columns ==
  {"user_id", "entry_date", "mood", "symptoms", "notes", "sleep_hours",
   "water_intake", "exercise_minutes", "energy_level", "stress_level"}

\* null (no entry), in the shape of a row
NoEntry ==
  [id |-> 0, user_id |-> "", entry_date |-> 0, mood |-> "", symptoms |-> "",
   notes |-> "", sleep_hours |-> NullNum, water_intake |-> NullNum,
   exercise_minutes |-> NullNum, energy_level |-> NullNum,
   stress_level |-> NullNum]

\* JSON.stringify of a number: NaN and the infinities become null
JsonNumber(x) == IF IsFinite(x) THEN x ELSE NullNum

\* The request body of a payload: the keys whose value is undefined are
\* not part of it (`present` is the set of the keys that are).
\* insert([entryData]): the columns absent from the body are NULL
createHealthEntry(table, entryData) ==
  LET col(c, null) == IF c \in entryData.present THEN entryData[c] ELSE null
  IN Append(table,
       [id |-> Len(table) + 1,
        user_id |-> col("user_id", ""),
        entry_date |-> col("entry_date", 0),
        mood |-> col("mood", ""),
        symptoms |-> col("symptoms", ""),
        notes |-> col("notes", ""),
        sleep_hours |-> JsonNumber(col("sleep_hours", NullNum)),
        water_intake |-> JsonNumber(col("water_intake", NullNum)),
        exercise_minutes |-> JsonNumber(col("exercise_minutes", NullNum)),
        energy_level |-> JsonNumber(col("energy_level", NullNum)),
        stress_level |-> JsonNumber(col("stress_level", NullNum))])

\* update(payload).eq('id', id): the columns of the body are set, the
\* others keep their value
UpdatedRow(row, payload) ==
  LET col(c, old) == IF c \in payload.present THEN payload[c] ELSE old
      num(c, old) == IF c \in payload.present THEN JsonNumber(payload[c]) ELSE old
  IN [id |-> row.id,
      user_id |-> col("user_id", row.user_id),
      entry_date |-> col("entry_date", row.entry_date),
      mood |-> col("mood", row.mood),
      symptoms |-> col("symptoms", row.symptoms),
      notes |-> col("notes", row.notes),
      sleep_hours |-> num("sleep_hours", row.sleep_hours),
      water_intake |-> num("water_intake", row.water_intake),
      exercise_minutes |-> num("exercise_minutes", row.exercise_minutes),
      energy_level |-> num("energy_level", row.energy_level),
      stress_level |-> num("stress_level", row.stress_level)]

updateHealthEntry(table, id, payload) ==
  [i \in 1..Len(table) |->
     IF table[i].id = id THEN UpdatedRow(table[i], payload) ELSE table[i]]

\* the orders in which a select may return the rows `sel` (a sequence):
\* every permutation that is descending in entry_date
DescendingOrders(sel) ==
  LET n == Len(sel)
      perms == {p \in [1..n -> 1..n] : \A i, j \in 1..n : i # j => p[i] # p[j]}
  IN {[i \in 1..n |-> sel[p[i]]] : p \in
        {q \in perms : \A i \in 1..(n - 1) :
           sel[q[i]].entry_date >= sel[q[i + 1]].entry_date}}

\* select('*').eq('user_id', userId).order('entry_date', {ascending: false}):
\* the set of the possible `data` arrays
getUserHealthEntries(table, userId) ==
  LET OfUser(r) == r.user_id = userId
  IN DescendingOrders(SelectSeq(table, OfUser))

\* insert([chatData]) into chats: the new row is the latest created
saveChatMessagePrepended(table, chatData) ==
  <<[chatData EXCEPT !.id = Len(table) + 1]>> \o table

saveChatMessage(table, chatData) ==
  Append(table, [chatData EXCEPT !.id = Len(table) + 1])

\* select('*').eq('user_id', userId).order('created_at', {ascending: true})
\* and, for a truthy sessionId, .eq('session_id', sessionId); 0 stands for
\* the argument left out
getChatHistory(table, userId, sessionId) ==
  LET Wanted(r) == /\ r.user_id = userId
                   /\ (sessionId # 0 => r.session_id = sessionId)
  IN SelectSeq(table, Wanted)

\* s in the opposite order
Reverse(s) == [i \in 1..Len(s) |-> s[Len(s) + 1 - i]]

\* insert([data]) into journals, journal_entries or user_profiles
InsertRow(table, data) == Append(table, [data EXCEPT !.id = Len(table) + 1])

\* from('journals').select('*').eq('user_id', userId)
\*   .order('created_at', {ascending: false})
getUserJournals(table, userId) ==
  LET OfUser(r) == r.user_id = userId IN Reverse(SelectSeq(table, OfUser))

\* from('journal_entries').select('*').eq('journal_id', journalId)
\*   .order('created_at', {ascending: false})
getJournalEntries(table, journalId) ==
  LET OfJournal(r) == r.journal_id = journalId
  IN Reverse(SelectSeq(table, OfJournal))

\* from('user_profiles').select('*').eq('user_id', userId).single(): the
\* row when exactly one matches, else an error and no data
getUserProfile(table, userId) ==
  LET OfUser(r) == r.user_id = userId
      found == SelectSeq(table, OfUser)
  IN IF Len(found) = 1 THEN found ELSE <<>>

----------------------------------------------------------------------------
(* UnifiedDashboardToday: the form, loadTodayEntry and handleSave *)

EmptyForm ==
  [sleep_hours |-> "", exercise_minutes |-> "", water_intake |-> "",
   mood |-> "", symptoms |-> "", notes |-> "", energy_level |-> "",
   stress_level |-> ""]

FormKeys == DOMAIN EmptyForm

\* onChange(key): setForm(prev => ({...prev, [key]: value}))
onChange(form, key, value) == [form EXCEPT ![key] = value]

\* computeHealthScore() without an argument reads the form
FormData(form) ==
  [mood |-> form.mood,
   sleep_hours |-> JsStr(form.sleep_hours),
   exercise_minutes |-> JsStr(form.exercise_minutes),
   water_intake |-> JsStr(form.water_intake)]

\* new Date().toISOString().slice(0, 10), as a day number
todayIsoDate(clock) == IsoDateKey(clock)

\* the payload handleSave builds from the form
\* a payload that also carries the computed score
SavePayloadWithScore(form, userId, isoDate) ==
  [present |->
     {"user_id", "entry_date", "health_score", "sleep_hours", "water_intake", "exercise_minutes"}
     \cup (IF form.mood # "" THEN {"mood"} ELSE {})
     \cup (IF form.symptoms # "" THEN {"symptoms"} ELSE {})
     \cup (IF form.notes # "" THEN {"notes"} ELSE {})
     \cup (IF form.energy_level # "" THEN {"energy_level"} ELSE {})
     \cup (IF form.stress_level # "" THEN {"stress_level"} ELSE {}),
   user_id |-> userId,
   entry_date |-> isoDate,
   mood |-> form.mood,
   symptoms |-> form.symptoms,
   notes |-> form.notes,
   sleep_hours |-> IF form.sleep_hours # "" THEN parseFloat(form.sleep_hours) ELSE Num(0),
   water_intake |-> IF form.water_intake # "" THEN parseFloat(form.water_intake) ELSE Num(0),
   exercise_minutes |->
     IF form.exercise_minutes # "" THEN parseInt(form.exercise_minutes) ELSE Num(0),
   energy_level |-> IF form.energy_level # "" THEN parseInt(form.energy_level) ELSE NullNum,
   stress_level |-> IF form.stress_level # "" THEN parseInt(form.stress_level) ELSE NullNum]

SavePayload(form, userId, isoDate) ==
  [present |->
     {"user_id", "entry_date", "sleep_hours", "water_intake", "exercise_minutes"}
     \cup (IF form.mood # "" THEN {"mood"} ELSE {})
     \cup (IF form.symptoms # "" THEN {"symptoms"} ELSE {})
     \cup (IF form.notes # "" THEN {"notes"} ELSE {})
     \cup (IF form.energy_level # "" THEN {"energy_level"} ELSE {})
     \cup (IF form.stress_level # "" THEN {"stress_level"} ELSE {}),
   user_id |-> userId,
   entry_date |-> isoDate,
   mood |-> form.mood,
   symptoms |-> form.symptoms,
   notes |-> form.notes,
   sleep_hours |-> IF form.sleep_hours # "" THEN parseFloat(form.sleep_hours) ELSE Num(0),
   water_intake |-> IF form.water_intake # "" THEN parseFloat(form.water_intake) ELSE Num(0),
   exercise_minutes |->
     IF form.exercise_minutes # "" THEN parseInt(form.exercise_minutes) ELSE Num(0),
   energy_level |-> IF form.energy_level # "" THEN parseInt(form.energy_level) ELSE NullNum,
   stress_level |-> IF form.stress_level # "" THEN parseInt(form.stress_level) ELSE NullNum]

\* entries.find(e => new Date(e.entry_date).toISOString().slice(0, 10)
\*                    === todayIsoDate) || null
RECURSIVE FindToday(_, _, _)
FindToday(data, i, isoDate) ==
  IF i > Len(data) THEN NoEntry
  ELSE IF IsoDateKey(ParseDate(data[i].entry_date)) = isoDate THEN data[i]
  ELSE FindToday(data, i + 1, isoDate)

\* x != null ? String(x) : ''
TextOfNumber(x) == IF x = NullNum THEN "" ELSE NumberToString(x)

\* the form loadTodayEntry sets for the entry it found
PrefillForm(today) ==
  IF today # NoEntry
  THEN [sleep_hours |-> TextOfNumber(today.sleep_hours),
        exercise_minutes |-> TextOfNumber(today.exercise_minutes),
        water_intake |-> TextOfNumber(today.water_intake),
        mood |-> today.mood,
        symptoms |-> today.symptoms,
        notes |-> today.notes,
        energy_level |-> TextOfNumber(today.energy_level),
        stress_level |-> TextOfNumber(today.stress_level)]
  ELSE EmptyForm

----------------------------------------------------------------------------
(* Bounds and input samples *)

MaxStatsEntries == 2     \* entries handed to AdvancedStats
MaxStreakEntries == 3    \* entries handed to calculateDayStreak
MaxDay == 5              \* entry dates are the days 0..MaxDay
MaxSeries == 4           \* length of the series handed to calculateTrend
MaxInputLen == 8         \* characters typed into the chatbot
MaxChatEntries == 2      \* entries handed to HealthChatbot

Sessions == {1, 2}

\* the clock starts at 00:00 UTC of day 3 and runs to 22:00 UTC
ClockStart == 3 * 24
ClockLast == ClockStart + 22

TzOffsets == {0 - 12, 0 - 5, 0, 5, 14}

\* a HealthEntry as the components receive it
Entry(day, mood, sleep, exercise, water) ==
  [entry_date |-> day, mood |-> mood, sleep_hours |-> sleep,
   exercise_minutes |-> exercise, water_intake |-> water]

\* every mood (unset included) with all metrics at zero and all above their
\* caps, and every combination of the metric values for one mood
StatsSamples ==
  {Entry(0, m, x[1], x[2], x[3]) :
     m \in Moods \cup {""},
     x \in {<<Num(0), Num(0), Num(0)>>, <<Num(24), Num(2000), Num(12)>>}}
  \cup
  {Entry(0, "excellent", sl, ex, w) :
     sl \in {Num(0), Rat(15, 2), Num(24)},
     ex \in {Num(0), Num(2000)}, w \in {Num(0), Num(12)}}
  \cup {Entry(0, "good", Num(8), Num(120), Num(8))}

TrendSamples == {Num(0), Num(1), Num(2), Num(5)}

ChatSamples ==
  {Entry(0, "excellent", Num(8), Num(90), Num(8)),
   Entry(0, "terrible", Num(5), Num(0), Num(3))}

InputFragments ==
  {<<"S", "A", "D">>, <<"S", "l", "e", "e", "p">>, <<"M", "e", "a", "l">>,
   <<"F", "i", "t", "n", "e", "s", "s">>, <<"h", "i">>}

MaxFallbackEntries == 8  \* entries handed to the fallback of generateInsight

\* whole-hour histories around the thresholds of the fallback summary
FallbackSamples ==
  {Entry(0, "excellent", Num(8), Num(90), Num(8)),
   Entry(0, "terrible", Num(5), Num(0), Num(3)),
   Entry(0, "good", Num(6), Num(60), Num(8))}

\* a write handleSave has in flight: the helper it calls, the id it passes
\* and the form and date of the render it was started from
NoCall == [op |-> "none", id |-> 0, form |-> EmptyForm, isoDate |-> 0]

\* a component that is not mounted
Unmounted ==
  [pc |-> "off", userId |-> "", todayEntry |-> NoEntry, loading |-> FALSE,
   saving |-> FALSE, form |-> EmptyForm, isoDate |-> 0, call |-> NoCall,
   toast |-> "", done |-> "none"]

DashUnmounted == [s \in Sessions |-> Unmounted]

\* the tables without rows
EmptyStore == [journals |-> <<>>, journal_entries |-> <<>>, user_profiles |-> <<>>]

\* computeHealthScore({}): a snapshot with no field set
NoData ==
  [mood |-> "", sleep_hours |-> JsUndef, exercise_minutes |-> JsUndef,
   water_intake |-> JsUndef]

\* no computeHealthScore call has returned yet
NoScore == [k |-> "none", n |-> 0, d |-> 1]

\* the mood of a snapshot: the five names of the select, unset, and a name
\* moodMap does not list
ScoreMoods == Moods \cup {"", "happy"}

\* a metric of a snapshot: missing, the empty text of a cleared input, texts
\* the inputs hold, a text that is not a number, and a stored number
ScoreValues ==
  { JsUndef, JsStr(""), JsStr("abc"), JsStr("0"), JsStr("7.5"), JsStr("8"),
    JsStr("120"), JsNum(Rat(25, 2)) }

\* the two pages that call createUser after sign-in
Pages == {"home", "profile"}

\* a page that has not called createUser
IdlePage ==
  [pc |-> "idle", variant |-> "", id |-> "", existed |-> FALSE,
   error |-> "", data |-> "", calls |-> 0]

NoPages == [p \in Pages |-> IdlePage]

MaxToasts == 4           \* toasts shown in one run

\* the JournalManager before a journal is selected: no entries shown, no
\* call in flight
NoManager ==
  [userId |-> "u1", selectedJournal |-> 0, entries |-> <<>>, loads |-> <<>>,
   creates |-> <<>>, selects |-> 0]

MaxSelects == 3          \* journal selections in one run

\* no onSave call
NoSave ==
  [present |-> {}, entry_date |-> 0, mood |-> "", symptoms |-> "",
   notes |-> "", sleep_hours |-> Num(0), water_intake |-> Num(0),
   exercise_minutes |-> Num(0)]

\* the EntryDialog as constructed: closed, every field empty; `onSave` is the
\* record the last event handed to onSave and `alert` the message it showed
ClosedDialog ==
  [open |-> FALSE, entry |-> 0, date |-> 0, mood |-> "", symptoms |-> "",
   notes |-> "", sleepHours |-> "", waterIntake |-> "", exerciseMinutes |-> "",
   onSave |-> NoSave, alert |-> ""]

\* what the user may type into a number field of the dialog
DialogTexts == {"", "abc", "-1", "0", "7.5", "24", "30"}

\* what the user may type into the symptoms field
DialogNotes == {"", " rest "}

MaxCalls == 2            \* createUser calls per page

\* no read helper called yet
NoRead == [helper |-> "", caller |-> "", arg |-> 0, data |-> <<>>]

MaxStoreRows == 3        \* rows in the tables the read helpers are called on

\* the session ids and journal ids handed to the read helpers
ReadIds == {1, 2}

Bots == {1}

MaxTurns == 2            \* messages sent from one mounted chatbot
MaxChatRows == 2         \* rows the chats table may hold

\* the texts typed into the chatbot
ChatTexts == {<<"h", "i">>}

\* the initial `messages` state: the welcome message
Welcome ==
  <<[type |-> "bot", id |-> 1,
     content |-> <<"Hello! I'm your health assistant.">>]>>

\* a chatbot that is not mounted.  The exchanges in flight (the
\* continuations of handleSendMessage, each the userInput it captured) are
\* in `saving` while the insert of the user's message is awaited, then in
\* `timers` (the setTimeout queue, first in first out), then in `replying`
\* while the insert of the reply is awaited.  `toasts` counts the toasts
\* raised, `accepted` the messages handleSendMessage accepted, `refused` is
\* whether the store answered an insert with an error and `loadFailed`
\* whether it answered the select of loadChatHistory with one.
BotOff ==
  [pc |-> "off", userId |-> "", sessionId |-> 0, messages |-> <<>>,
   input |-> <<>>, isTyping |-> FALSE, isLoadingHistory |-> FALSE,
   saving |-> <<>>, timers |-> <<>>, replying |-> <<>>,
   toasts |-> 0, accepted |-> 0, refused |-> FALSE, loadFailed |-> FALSE]

BotUnmounted == [b \in Bots |-> BotOff]

Users == {"u1", "u2"}

MaxRows == 2             \* rows the health_entries table may hold
MaxDashDays == 1         \* midnights that pass while the dashboard is open

FormSamples ==
  {[sleep_hours |-> "7.5", exercise_minutes |-> "30", water_intake |-> "08",
    mood |-> "good", symptoms |-> "headache", notes |-> "long walk",
    energy_level |-> "5", stress_level |-> "3"]}

----------------------------------------------------------------------------
(* AdvancedStats rendered over a growing history: SpecStats *)

InitStats ==
  /\ entries = <<>>
  /\ now = ClockStart
  /\ tzOffset = 0
  /\ stats = AdvancedStats(<<>>, ClockStart, 0)
  /\ values = <<>>
  /\ trend = Num(0)
  /\ input = <<>>
  /\ insight = NoInsight
  /\ streak = 0
  /\ rows = <<>>
  /\ sess = DashUnmounted
  /\ chats = <<>>
  /\ bot = BotUnmounted
  /\ store = EmptyStore
  /\ read = NoRead
  /\ scoreArg = NoData
  /\ score = NoScore
  /\ users = <<>>
  /\ pages = NoPages
  /\ memoryState = [toasts |-> <<>>]
  /\ toastTimeouts = <<>>
  /\ count = 0
  /\ manager = NoManager
  /\ dialog = ClosedDialog

\* a newer entry arrives at the head of the list (the list is ordered by
\* entry_date descending) and the component renders again
StatsNewEntry ==
  /\ Len(entries) < MaxStatsEntries
  /\ \E e \in StatsSamples :
       entries' = <<[e EXCEPT !.entry_date = Len(entries)]>> \o entries
  /\ stats' = AdvancedStats(entries', now, tzOffset)
  /\ UNCHANGED <<now, tzOffset, values, trend, input, insight, streak, rows, sess, chats, bot, store, read, scoreArg, score,
    users, pages, memoryState, toastTimeouts, count, manager, dialog>>

NextStats == StatsNewEntry

SpecStats == InitStats /\ [][NextStats]_vars

----------------------------------------------------------------------------
(* calculateDayStreak over arbitrary entry lists, clocks and UTC offsets:  *)
(* SpecStreak                                                              *)

InitStreak ==
  /\ entries = <<>>
  /\ now = ClockStart
  /\ tzOffset \in TzOffsets
  /\ stats = NoStats
  /\ values = <<>>
  /\ trend = Num(0)
  /\ input = <<>>
  /\ insight = NoInsight
  /\ streak = calculateDayStreak(<<>>, ClockStart, tzOffset)
  /\ rows = <<>>
  /\ sess = DashUnmounted
  /\ chats = <<>>
  /\ bot = BotUnmounted
  /\ store = EmptyStore
  /\ read = NoRead
  /\ scoreArg = NoData
  /\ score = NoScore
  /\ users = <<>>
  /\ pages = NoPages
  /\ memoryState = [toasts |-> <<>>]
  /\ toastTimeouts = <<>>
  /\ count = 0
  /\ manager = NoManager
  /\ dialog = ClosedDialog

StreakNewEntry ==
  /\ Len(entries) < MaxStreakEntries
  /\ \E d \in 0..MaxDay :
       entries' = Append(entries, Entry(d, "", Num(0), Num(0), Num(0)))
  /\ streak' = calculateDayStreak(entries', now, tzOffset)
  /\ UNCHANGED <<now, tzOffset, stats, values, trend, input, insight, rows, sess, chats, bot, store, read, scoreArg, score,
    users, pages, memoryState, toastTimeouts, count, manager, dialog>>

StreakClock ==
  /\ now + 11 <= ClockLast
  /\ now' = now + 11
  /\ streak' = calculateDayStreak(entries, now', tzOffset)
  /\ UNCHANGED <<entries, tzOffset, stats, values, trend, input, insight, rows, sess, chats, bot, store, read, scoreArg, score,
    users, pages, memoryState, toastTimeouts, count, manager, dialog>>

NextStreak == StreakNewEntry \/ StreakClock

SpecStreak == InitStreak /\ [][NextStreak]_vars

----------------------------------------------------------------------------
(* calculateTrend over arbitrary series: SpecTrend *)

InitTrend ==
  /\ entries = <<>>
  /\ now = ClockStart
  /\ tzOffset = 0
  /\ stats = NoStats
  /\ values = <<>>
  /\ trend = calculateTrend(<<>>)
  /\ input = <<>>
  /\ insight = NoInsight
  /\ streak = 0
  /\ rows = <<>>
  /\ sess = DashUnmounted
  /\ chats = <<>>
  /\ bot = BotUnmounted
  /\ store = EmptyStore
  /\ read = NoRead
  /\ scoreArg = NoData
  /\ score = NoScore
  /\ users = <<>>
  /\ pages = NoPages
  /\ memoryState = [toasts |-> <<>>]
  /\ toastTimeouts = <<>>
  /\ count = 0
  /\ manager = NoManager
  /\ dialog = ClosedDialog

TrendPush ==
  /\ Len(values) < MaxSeries
  /\ \E v \in TrendSamples : values' = Append(values, v)
  /\ trend' = calculateTrend(values')
  /\ UNCHANGED <<entries, now, tzOffset, stats, input, insight, streak, rows, sess, chats, bot, store, read, scoreArg, score,
    users, pages, memoryState, toastTimeouts, count, manager, dialog>>

NextTrend == TrendPush

SpecTrend == InitTrend /\ [][NextTrend]_vars

----------------------------------------------------------------------------
(* generateInsight over typed messages and entry lists: SpecChat *)

InitChat ==
  /\ entries = <<>>
  /\ now = ClockStart
  /\ tzOffset = 0
  /\ stats = NoStats
  /\ values = <<>>
  /\ trend = Num(0)
  /\ input = <<>>
  /\ insight = NoInsight
  /\ streak = 0
  /\ rows = <<>>
  /\ sess = DashUnmounted
  /\ chats = <<>>
  /\ bot = BotUnmounted
  /\ store = EmptyStore
  /\ read = NoRead
  /\ scoreArg = NoData
  /\ score = NoScore
  /\ users = <<>>
  /\ pages = NoPages
  /\ memoryState = [toasts |-> <<>>]
  /\ toastTimeouts = <<>>
  /\ count = 0
  /\ manager = NoManager
  /\ dialog = ClosedDialog

\* the user types on: setInput(e.target.value)
ChatType ==
  /\ \E f \in InputFragments :
       /\ Len(input) + Len(f) <= MaxInputLen
       /\ input' = input \o f
  /\ UNCHANGED <<entries, now, tzOffset, stats, values, trend, insight, streak, rows, sess, chats, bot, store, read, scoreArg, score,
    users, pages, memoryState, toastTimeouts, count, manager, dialog>>

\* the page hands the chatbot a longer history
ChatNewEntry ==
  /\ Len(entries) < MaxChatEntries
  /\ \E e \in ChatSamples :
       entries' = <<[e EXCEPT !.entry_date = Len(entries)]>> \o entries
  /\ UNCHANGED <<now, tzOffset, stats, values, trend, input, insight, streak, rows, sess, chats, bot, store, read, scoreArg, score,
    users, pages, memoryState, toastTimeouts, count, manager, dialog>>

\* handleSendMessage: the input is cleared, and the reply timer runs
\* generateInsight(userInput)
ChatReply ==
  /\ input # <<>>
  /\ input' = <<>>
  /\ insight' = [user_message |-> input, entries_count |-> Len(entries),
                 result |-> generateInsight(input, entries)]
  /\ UNCHANGED <<entries, now, tzOffset, stats, values, trend, streak, rows, sess, chats, bot, store, read, scoreArg, score,
    users, pages, memoryState, toastTimeouts, count, manager, dialog>>

NextChat == ChatType \/ ChatNewEntry \/ ChatReply

SpecChat == InitChat /\ [][NextChat]_vars

----------------------------------------------------------------------------
(* Properties of the calculators *)

\* x is an integer between 0 and 100
IsScore(x) == IsInteger(x) /\ 0 <= x.n /\ x.n <= 100

\* C1: for every mood (unset included) and all non-negative sleep_hours,
\* exercise_minutes and water_intake the health score is an integer between
\* 0 and 100: computeHealthScore of each single entry and the aggregate
\* score AdvancedStats renders over the history.
C1_ScoreWithinRange ==
  /\ \A i \in 1..Len(entries) : IsScore(computeHealthScore(EntryData(entries[i])))
  /\ stats.shown => IsScore(stats.healthScore)

\* C1 witness: a history of two entries whose metrics all exceed their
\* caps, scored 100 both per entry and in aggregate
C1_Witness ==
  /\ Len(entries) = 2
  /\ stats.shown /\ stats.healthScore = Num(100)
  /\ \E i \in 1..Len(entries) :
       /\ entries[i].sleep_hours = Num(24)
       /\ entries[i].exercise_minutes = Num(2000)
       /\ computeHealthScore(EntryData(entries[i])) = Num(100)

\* the caller's local calendar day, and the UTC calendar day, of the clock
LocalToday == (now + tzOffset) \div 24
UtcToday == now \div 24

EntryDays == {entries[i].entry_date : i \in 1..Len(entries)}
MostRecentDay == CHOOSE d \in EntryDays : \A e \in EntryDays : e <= d

\* the length of the maximal run of consecutive days in `days` ending at `d`
RECURSIVE RunLength(_, _)
RunLength(days, d) == IF d \in days THEN 1 + RunLength(days, d - 1) ELSE 0

C5_StreakIsRunLength ==
  (Len(entries) > 0 /\ MostRecentDay \in {LocalToday, LocalToday - 1})
    => streak = RunLength(EntryDays, MostRecentDay)

\* the sequences that are permutations of sequence q
PermutationsOf(q) ==
  LET n == Len(q)
  IN {[i \in 1..n |-> q[p[i]]] :
        p \in {f \in [1..n -> 1..n] : \A i, j \in 1..n : i # j => f[i] # f[j]}}

C7_PositiveStreakEndsRecently ==
  (tzOffset = 0 /\ streak > 0) => MostRecentDay \in {LocalToday, LocalToday - 1}

\* the sum of the integers s[from..to] of a series of whole numbers
RECURSIVE SumOf(_, _, _)
SumOf(s, from, to) == IF from > to THEN 0 ELSE s[to].n + SumOf(s, from, to - 1)

\* C8: calculateTrend returns 0 for a series with fewer than 2 values;
\* otherwise, with the first floor(n/2) values as first half and the rest
\* as second half, it returns (mean(second) - mean(first)) / mean(first)
\* * 100 (stated where mean(first) is not 0, so that the quotient exists).
C8_TrendFormula ==
  LET n == Len(values)
      h == n \div 2
      s1 == SumOf(values, 1, h)
      s2 == SumOf(values, h + 1, n)
  IN /\ n < 2 => trend = Num(0)
     /\ (n >= 2 /\ s1 # 0)
          => /\ IsFinite(trend)
             /\ trend.n * (s1 * (n - h)) = trend.d * ((s2 * h - s1 * (n - h)) * 100)

\* C8 witness: the series [1, 1, 2, 2] gives 100
C8_Witness == values = <<Num(1), Num(1), Num(2), Num(2)>> /\ trend = Num(100)

\* C9: for every series of non-negative numbers of length 2 or more
\* calculateTrend returns a finite number, never NaN or an infinity.
C9_TrendIsFinite == Len(values) >= 2 => IsFinite(trend)

\* text `part` occurs in `text` at some position
OccursIn(part, text) ==
  \E k \in 1..Len(text) :
    \A c \in 1..Len(part) : k + c - 1 <= Len(text) /\ text[k + c - 1] = part[c]

\* group g of healthInsights has a trigger occurring in the lower-cased
\* message
GroupMatches(g, message) ==
  \E t \in 1..Len(healthInsights[g].trigger) :
    OccursIn(healthInsights[g].trigger[t], toLowerCase(message))

\* C10: generateInsight returns the response and the 3 suggestions of the
\* first group, in the order sleep, mood, exercise, nutrition, that has a
\* trigger occurring as a substring of the lower-cased input, whatever the
\* user's entries are.
C10_FirstMatchingGroup ==
  /\ healthInsights[1].trigger[1] = <<"s", "l", "e", "e", "p">>
  /\ healthInsights[2].trigger[1] = <<"m", "o", "o", "d">>
  /\ healthInsights[3].trigger[1] = <<"e", "x", "e", "r", "c", "i", "s", "e">>
  /\ healthInsights[4].trigger[1] = <<"n", "u", "t", "r", "i", "t", "i", "o", "n">>
  /\ insight # NoInsight =>
       \A g \in 1..Len(healthInsights) :
         (GroupMatches(g, insight.user_message)
          /\ \A e \in 1..(g - 1) : ~GroupMatches(e, insight.user_message))
           => /\ insight.result.response = <<healthInsights[g].response>>
              /\ insight.result.suggestions = healthInsights[g].suggestions
              /\ Len(insight.result.suggestions) = 3

\* C10 witness: "SADSleep", sent with entries present, is answered by
\* the sleep group although the mood trigger comes first in the text
C10_Witness ==
  /\ insight.user_message =
       <<"S", "A", "D", "S", "l", "e", "e", "p">>
  /\ insight.entries_count > 0
  /\ insight.result.response = <<healthInsights[1].response>>

----------------------------------------------------------------------------
(* The dashboard against the store: SpecDash.  A session is one mounted    *)
(* UnifiedDashboardToday; its handlers are cut at their awaits, and the    *)
(* step that ends an await performs the store's part of the call together  *)
(* with the handler's code up to the next await.                           *)
(*   pc = "mounting": the mount effect's loadTodayEntry awaits the select  *)
(*   pc = "idle":     no handler is running                                *)
(*   pc = "write":    handleSave awaits updateHealthEntry/createHealthEntry*)
(*   pc = "reload":   handleSave awaits loadTodayEntry's select            *)

\* useState defaults and the mount effect: loadTodayEntry has run up to
\* its await (setLoading(true))
Mounted(user, clock) ==
  [Unmounted EXCEPT !.pc = "mounting", !.userId = user, !.loading = TRUE,
                    !.isoDate = todayIsoDate(clock)]

InitDash ==
  /\ entries = <<>>
  /\ now = ClockStart
  /\ tzOffset = 0
  /\ stats = NoStats
  /\ values = <<>>
  /\ trend = Num(0)
  /\ input = <<>>
  /\ insight = NoInsight
  /\ streak = 0
  /\ rows = <<>>
  /\ sess = [s \in Sessions |->
               IF s = 1 THEN Mounted("u1", ClockStart) ELSE Unmounted]
  /\ chats = <<>>
  /\ bot = BotUnmounted
  /\ store = EmptyStore
  /\ read = NoRead
  /\ scoreArg = NoData
  /\ score = NoScore
  /\ users = <<>>
  /\ pages = NoPages
  /\ memoryState = [toasts |-> <<>>]
  /\ toastTimeouts = <<>>
  /\ count = 0
  /\ manager = NoManager
  /\ dialog = ClosedDialog

DashPure == <<entries, tzOffset, stats, values, trend, input, insight, streak, chats, bot, store, read, scoreArg, score,
    users, pages, memoryState, toastTimeouts, count, manager, dialog>>

\* loadTodayEntry after its await, for the answer [data, error] of the
\* select: the catch is not entered (the helper returns the error), so an
\* error reads as an empty list
LoadedSession(c, data) ==
  LET isoDate == IF c.pc = "reload" THEN c.call.isoDate ELSE c.isoDate
      today == FindToday(data, 1, isoDate)
  IN [c EXCEPT !.todayEntry = today, !.form = PrefillForm(today),
               !.loading = FALSE]

\* the select answers: loadTodayEntry finishes, and with it handleSave
\* when it was the caller (finally: setSaving(false))
DashLoadData(s) ==
  /\ sess[s].pc \in {"mounting", "reload"}
  /\ \E data \in getUserHealthEntries(rows, sess[s].userId) :
       sess' = [sess EXCEPT ![s] =
                  [LoadedSession(sess[s], data) EXCEPT
                     !.pc = "idle", !.saving = FALSE,
                     !.done = IF sess[s].pc = "reload" THEN "saved" ELSE "none",
                     !.call = IF sess[s].pc = "reload" THEN sess[s].call ELSE NoCall,
                     !.isoDate = todayIsoDate(now)]]
  /\ UNCHANGED <<rows, now>>
  /\ UNCHANGED DashPure

\* the select fails: { data: null, error }
DashLoadError(s) ==
  /\ sess[s].pc \in {"mounting", "reload"}
  /\ sess' = [sess EXCEPT ![s] =
                [LoadedSession(sess[s], <<>>) EXCEPT
                   !.pc = "idle", !.saving = FALSE, !.call = NoCall,
                   !.done = "none", !.isoDate = todayIsoDate(now)]]
  /\ UNCHANGED <<rows, now>>
  /\ UNCHANGED DashPure

\* the form is on screen (not the loading skeleton)
FormShown(c) == c.pc \in {"idle", "write"} /\ ~c.loading

\* the onChange events of the user filling in the form
RECURSIVE ChangeAll(_, _, _)
ChangeAll(form, keys, target) ==
  IF keys = {} THEN form
  ELSE LET key == CHOOSE k \in keys : TRUE
       IN ChangeAll(onChange(form, key, target[key]), keys \ {key}, target)

DashFill(s) ==
  /\ FormShown(sess[s])
  /\ \E f \in FormSamples :
       sess' = [sess EXCEPT ![s].form = ChangeAll(@, FormKeys, f),
                            ![s].done = "none",
                            ![s].isoDate = todayIsoDate(now)]
  /\ UNCHANGED <<rows, now>>
  /\ UNCHANGED DashPure

\* the Clear button
DashClear(s) ==
  /\ FormShown(sess[s])
  /\ sess' = [sess EXCEPT ![s].form = EmptyForm, ![s].done = "none",
                          ![s].isoDate = todayIsoDate(now)]
  /\ UNCHANGED <<rows, now>>
  /\ UNCHANGED DashPure

\* handleSave up to its first await, from the last render's closure
handleSave(c) ==
  [c EXCEPT !.pc = "write", !.saving = TRUE, !.done = "none",
            !.call = IF c.todayEntry # NoEntry /\ c.todayEntry.id # 0
                     THEN [op |-> "update", id |-> c.todayEntry.id,
                           form |-> c.form, isoDate |-> c.isoDate]
                     ELSE [op |-> "create", id |-> 0,
                           form |-> c.form, isoDate |-> c.isoDate]]

\* the payload of the write in flight
CallPayload(c) == SavePayload(c.call.form, c.userId, c.call.isoDate)

\* the "saved" score the page shows next to the live one
storedScore(c) ==
  IF c.todayEntry # NoEntry THEN computeHealthScore(EntryData(c.todayEntry))
  ELSE Num(0)

\* a Save button that is never disabled
DashSaveAnytime(s) ==
  /\ sess[s].pc \in {"idle", "write"} /\ ~sess[s].loading
  /\ sess' = [sess EXCEPT ![s] = handleSave(@)]
  /\ UNCHANGED <<rows, now>>
  /\ UNCHANGED DashPure

\* the Save button (disabled while saving)
DashSave(s) ==
  /\ sess[s].pc = "idle" /\ ~sess[s].saving /\ ~sess[s].loading
  /\ sess' = [sess EXCEPT ![s] = handleSave(@)]
  /\ UNCHANGED <<rows, now>>
  /\ UNCHANGED DashPure

\* the write succeeds: the success toast, then loadTodayEntry up to its
\* await
DashWriteDone(s) ==
  /\ sess[s].pc = "write"
  /\ \/ /\ sess[s].call.op = "update"
        /\ rows' = updateHealthEntry(rows, sess[s].call.id, CallPayload(sess[s]))
        /\ sess' = [sess EXCEPT ![s].toast = "Updated Successfully",
                                ![s].pc = "reload", ![s].loading = TRUE]
     \/ /\ sess[s].call.op = "create"
        /\ Len(rows) < MaxRows
        /\ rows' = createHealthEntry(rows, CallPayload(sess[s]))
        /\ sess' = [sess EXCEPT ![s].toast = "Saved Successfully",
                                ![s].pc = "reload", ![s].loading = TRUE]
  /\ UNCHANGED now
  /\ UNCHANGED DashPure

\* the write fails: result.error is thrown, caught and toasted
DashWriteError(s) ==
  /\ sess[s].pc = "write"
  /\ sess' = [sess EXCEPT ![s].toast = "Save failed", ![s].pc = "idle",
                          ![s].saving = FALSE, ![s].call = NoCall,
                          ![s].isoDate = todayIsoDate(now)]
  /\ UNCHANGED <<rows, now>>
  /\ UNCHANGED DashPure

\* midnight (UTC) passes
DashMidnight ==
  /\ now + 24 <= ClockStart + 24 * MaxDashDays
  /\ now' = now + 24
  /\ UNCHANGED <<rows, sess, chats, bot, store, read, scoreArg, score,
    users, pages, memoryState, toastTimeouts, count, manager, dialog>>
  /\ UNCHANGED DashPure

\* a user opens the dashboard in another tab
DashMount(s) ==
  /\ sess[s].pc = "off"
  /\ \E u \in Users : sess' = [sess EXCEPT ![s] = Mounted(u, now)]
  /\ UNCHANGED <<rows, now>>
  /\ UNCHANGED DashPure

NextDash ==
  \/ \E s \in Sessions :
       \/ DashLoadData(s) \/ DashLoadError(s) \/ DashFill(s) \/ DashClear(s)
       \/ DashSave(s) \/ DashWriteDone(s) \/ DashWriteError(s)
  \/ DashMidnight

SpecDash == InitDash /\ [][NextDash]_vars

\* every request to the store is answered, with data or with an error
SpecDashFair ==
  /\ SpecDash
  /\ \A s \in Sessions :
       /\ WF_vars(DashWriteDone(s) \/ DashWriteError(s))
       /\ WF_vars(DashLoadData(s) \/ DashLoadError(s))

\* two tabs with neither failures nor a change of date
NextDashTabs ==
  \E s \in Sessions :
    \/ DashMount(s) \/ DashLoadData(s) \/ DashFill(s) \/ DashSave(s)
    \/ DashWriteDone(s)

SpecDashTabs == InitDash /\ [][NextDashTabs]_vars

----------------------------------------------------------------------------
(* Properties of the dashboard and the store *)

\* C2: after any sequence of loads and saves of UnifiedDashboardToday the
\* table holds at most one health_entries row per user and calendar date.
C2_OneRowPerUserAndDate ==
  \A i, j \in 1..Len(rows) :
    (rows[i].user_id = rows[j].user_id /\ rows[i].entry_date = rows[j].entry_date)
      => i = j

\* the value a numeric input of the form stands for; `empty` is the value
\* of the input left empty
FormNumber(text, empty) == IF text = "" THEN empty ELSE parseFloat(text)

\* the entry holds the field values of the form
FieldsMatch(e, form) ==
  /\ e # NoEntry
  /\ e.mood = form.mood
  /\ e.symptoms = form.symptoms
  /\ e.notes = form.notes
  /\ e.sleep_hours = FormNumber(form.sleep_hours, Num(0))
  /\ e.water_intake = FormNumber(form.water_intake, Num(0))
  /\ e.exercise_minutes = FormNumber(form.exercise_minutes, Num(0))
  /\ e.energy_level = FormNumber(form.energy_level, NullNum)
  /\ e.stress_level = FormNumber(form.stress_level, NullNum)

\* C3: after a successful handleSave and its loadTodayEntry, today's entry
\* has the field values the form had when Save was pressed, whether the
\* save created the row or updated it (stated for the tables that hold one
\* row per user and date, so that it does not depend on C2).
C3_SavedEntryEqualsForm ==
  \A s \in Sessions :
    (sess[s].done = "saved" /\ C2_OneRowPerUserAndDate)
      => FieldsMatch(sess[s].todayEntry, sess[s].call.form)

----------------------------------------------------------------------------
(* HealthChatbot: the fallback summary of generateInsight *)

\* the histories the page may hand over: entry_date descending
InitFallback ==
  /\ \E n \in 0..MaxFallbackEntries :
       \E f \in [1..n -> FallbackSamples] :
         entries = [i \in 1..n |-> [f[i] EXCEPT !.entry_date = n - i]]
  /\ now = ClockStart
  /\ tzOffset = 0
  /\ stats = NoStats
  /\ values = <<>>
  /\ trend = Num(0)
  /\ input = <<>>
  /\ insight = NoInsight
  /\ streak = 0
  /\ rows = <<>>
  /\ sess = DashUnmounted
  /\ chats = <<>>
  /\ bot = BotUnmounted
  /\ store = EmptyStore
  /\ read = NoRead
  /\ scoreArg = NoData
  /\ score = NoScore
  /\ users = <<>>
  /\ pages = NoPages
  /\ memoryState = [toasts |-> <<>>]
  /\ toastTimeouts = <<>>
  /\ count = 0
  /\ manager = NoManager
  /\ dialog = ClosedDialog

\* the user types a text no trigger occurs in
FallbackType ==
  /\ input = <<>>
  /\ input' = <<"h", "i">>
  /\ UNCHANGED <<entries, now, tzOffset, stats, values, trend, insight, streak, rows, sess, chats, bot, store, read, scoreArg, score,
    users, pages, memoryState, toastTimeouts, count, manager, dialog>>

NextFallback == FallbackType \/ ChatReply

SpecFallback == InitFallback /\ [][NextFallback]_vars

\* the first seven (or fewer) entries, their number and their integer sums
FirstSeven == SubSeq(entries, 1, IF Len(entries) < 7 THEN Len(entries) ELSE 7)

RECURSIVE IntSum(_)
IntSum(s) == IF s = <<>> THEN 0 ELSE Head(s) + IntSum(Tail(s))

MoodValueOf(e) ==
  CASE e.mood = "excellent" -> 5
    [] e.mood = "good" -> 4
    [] e.mood = "neutral" -> 3
    [] e.mood = "poor" -> 2
    [] e.mood = "terrible" -> 1
    [] OTHER -> 3

MoodSum == IntSum([i \in 1..Len(FirstSeven) |-> MoodValueOf(FirstSeven[i])])
SleepSum == IntSum([i \in 1..Len(FirstSeven) |-> FirstSeven[i].sleep_hours.n])
ExerciseSum == IntSum([i \in 1..Len(FirstSeven) |-> FirstSeven[i].exercise_minutes.n])

\* the reply holds the fragment
Says(fragment) ==
  \E i \in 1..Len(insight.result.response) :
    insight.result.response[i] = fragment

\* C11: when no trigger group matches, the summary is built from the first
\* 7 entries only: mood 'positive' iff the average mood is >= 4, 'lower' iff
\* <= 2, else 'stable' (average 3 without entries); sleep 'good' iff the
\* average sleep is >= 7, 'needs attention' iff < 6, none otherwise;
\* exercise 'great job' iff the total is > 150, 'consider adding' iff < 60,
\* none otherwise; the suggestions are the 4 fixed fallback suggestions.
C11_FallbackSummary ==
  (insight # NoInsight /\ \A g \in 1..Len(healthInsights) :
                            ~GroupMatches(g, insight.user_message))
    => LET n == Len(FirstSeven)
           mood == IF n = 0 THEN 3 ELSE MoodSum
           k == IF n = 0 THEN 1 ELSE n
       IN /\ \A i \in 1..Len(FirstSeven) : FirstSeven[i].sleep_hours.d = 1
          /\ Says("Your mood has been quite positive recently! ") <=> mood >= 4 * k
          /\ Says("I notice your mood has been lower lately. ") <=> mood <= 2 * k
          /\ Says("Your mood has been fairly stable. ")
               <=> (mood < 4 * k /\ mood > 2 * k)
          /\ Says("Your sleep quality looks good with an average of ")
               <=> (n > 0 /\ SleepSum >= 7 * n)
          /\ Says("Your sleep might need attention - averaging ")
               <=> (n = 0 \/ SleepSum < 6 * n)
          /\ Says("Great job staying active! ") <=> ExerciseSum > 150
          /\ Says("Consider adding more physical activity to your routine. ")
               <=> ExerciseSum < 60
          /\ insight.result.suggestions =
               <<"Tell me more about my sleep patterns",
                 "How can I improve my mood?",
                 "What exercise routine would work for me?",
                 "Show me my health trends">>

\* C11 witness: a history of 8 entries whose eighth would change every
\* phrase: seven 'terrible' days of 5 hours and no exercise, then one
\* 'excellent' day with 90 minutes, are summarised as lower mood, sleep
\* needing attention and too little exercise
C11_Witness ==
  /\ Len(entries) = 8
  /\ \A i \in 1..7 : entries[i].mood = "terrible"
  /\ entries[8].mood = "excellent"
  /\ insight # NoInsight
  /\ Says("I notice your mood has been lower lately. ")
  /\ Says("Consider adding more physical activity to your routine. ")

----------------------------------------------------------------------------
(* HealthChatbot and the chats table *)

InitChatStore ==
  /\ entries = <<>>
  /\ now = ClockStart
  /\ tzOffset = 0
  /\ stats = NoStats
  /\ values = <<>>
  /\ trend = Num(0)
  /\ input = <<>>
  /\ insight = NoInsight
  /\ streak = 0
  /\ rows = <<>>
  /\ sess = DashUnmounted
  /\ chats = <<>>
  /\ bot = BotUnmounted
  /\ store = EmptyStore
  /\ read = NoRead
  /\ scoreArg = NoData
  /\ score = NoScore
  /\ users = <<>>
  /\ pages = NoPages
  /\ memoryState = [toasts |-> <<>>]
  /\ toastTimeouts = <<>>
  /\ count = 0
  /\ manager = NoManager
  /\ dialog = ClosedDialog

BotPure ==
  <<entries, now, tzOffset, stats, values, trend, input, insight, streak,
    rows, sess, store, read, scoreArg, score,
    users, pages, memoryState, toastTimeouts, count, manager, dialog>>

MaxOf(S) ==
  IF S = {} THEN 0
  ELSE LET x == CHOOSE y \in S : \A z \in S : z <= y IN x

\* `session_${Date.now()}_${random}`: an id no component and no row has
FreshSession ==
  1 + MaxOf({bot[b].sessionId : b \in Bots}
            \cup {chats[i].session_id : i \in 1..Len(chats)})

\* s without its k-th element
Without(s, k) == SubSeq(s, 1, k - 1) \o SubSeq(s, k + 1, Len(s))

\* the page with the chatbot is opened: initial state, then the mount
\* effect calls loadChatHistory up to its await
BotMount(b) ==
  /\ bot[b].pc = "off"
  /\ \E u \in Users :
       bot' = [bot EXCEPT ![b] =
                 [BotOff EXCEPT !.pc = "on", !.userId = u,
                                !.sessionId = FreshSession,
                                !.messages = Welcome,
                                !.isLoadingHistory = TRUE]]
  /\ UNCHANGED chats
  /\ UNCHANGED BotPure

\* data.map(chat => ({id, type, content, timestamp}))
LoadedMessages(data) ==
  [i \in 1..Len(data) |->
     [type |-> IF data[i].is_user_message THEN "user" ELSE "bot",
      id |-> data[i].id, content |-> data[i].message]]

\* loadChatHistory after its await, the select answered with rows
BotHistoryData(b) ==
  /\ bot[b].pc = "on" /\ bot[b].isLoadingHistory
  /\ LET data == getChatHistory(chats, bot[b].userId, bot[b].sessionId)
     IN bot' = [bot EXCEPT ![b].messages =
                              IF Len(data) > 0 THEN LoadedMessages(data) ELSE @,
                           ![b].isLoadingHistory = FALSE]
  /\ UNCHANGED chats
  /\ UNCHANGED BotPure

\* loadChatHistory after its await, the select answered with an error:
\* console.warn
BotHistoryError(b) ==
  /\ bot[b].pc = "on" /\ bot[b].isLoadingHistory
  /\ bot' = [bot EXCEPT ![b].isLoadingHistory = FALSE, ![b].loadFailed = TRUE]
  /\ UNCHANGED chats
  /\ UNCHANGED BotPure

\* setInput(e.target.value)
BotType(b) ==
  /\ bot[b].pc = "on"
  /\ \E t \in ChatTexts : t # bot[b].input /\ bot' = [bot EXCEPT ![b].input = t]
  /\ UNCHANGED chats
  /\ UNCHANGED BotPure

\* handleSendMessage up to its await (the Enter key; the Send button is
\* disabled while isTyping)
BotSend(b) ==
  /\ bot[b].pc = "on"
  /\ bot[b].input # <<>> /\ bot[b].userId # ""
  /\ bot[b].accepted < MaxTurns
  /\ bot' = [bot EXCEPT
               ![b].messages =
                  Append(@, [type |-> "user", id |-> 0, content |-> bot[b].input]),
               ![b].input = <<>>,
               ![b].isTyping = TRUE,
               ![b].accepted = @ + 1,
               ![b].saving = Append(@, bot[b].input)]
  /\ UNCHANGED chats
  /\ UNCHANGED BotPure

\* the chatData of the user's message and of the reply
UserChat(c, userInput) ==
  [id |-> 0, user_id |-> c.userId, session_id |-> c.sessionId,
   message |-> userInput, is_user_message |-> TRUE, user_message |-> <<>>]

BotChat(c, userInput) ==
  [id |-> 0, user_id |-> c.userId, session_id |-> c.sessionId,
   message |-> generateInsight(userInput, entries).response,
   is_user_message |-> FALSE, user_message |-> userInput]

\* the insert of the user's message is answered with the row: the timer
\* of the reply is set
BotUserSaved(b) ==
  /\ Len(chats) < MaxChatRows
  /\ \E k \in 1..Len(bot[b].saving) :
       /\ chats' = saveChatMessage(chats, UserChat(bot[b], bot[b].saving[k]))
       /\ bot' = [bot EXCEPT ![b].saving = Without(@, k),
                             ![b].timers = Append(@, bot[b].saving[k])]
  /\ UNCHANGED BotPure

\* the insert of the user's message is answered with an error: the helper
\* returns it, nothing reads it, and the timer of the reply is set
BotUserRefused(b) ==
  /\ \E k \in 1..Len(bot[b].saving) :
       bot' = [bot EXCEPT ![b].saving = Without(@, k),
                          ![b].timers = Append(@, bot[b].saving[k]),
                          ![b].refused = TRUE]
  /\ UNCHANGED chats
  /\ UNCHANGED BotPure

\* the timer fires: the reply is shown and its insert called
BotTimer(b) ==
  /\ bot[b].timers # <<>>
  /\ LET userInput == Head(bot[b].timers)
     IN bot' = [bot EXCEPT
                  ![b].messages =
                     Append(@, [type |-> "bot", id |-> 0,
                                content |-> generateInsight(userInput, entries).response]),
                  ![b].isTyping = FALSE,
                  ![b].timers = Tail(@),
                  ![b].replying = Append(@, userInput)]
  /\ UNCHANGED chats
  /\ UNCHANGED BotPure

\* the insert of the reply is answered with the row
BotReplySaved(b) ==
  /\ Len(chats) < MaxChatRows
  /\ \E k \in 1..Len(bot[b].replying) :
       /\ chats' = saveChatMessage(chats, BotChat(bot[b], bot[b].replying[k]))
       /\ bot' = [bot EXCEPT ![b].replying = Without(@, k)]
  /\ UNCHANGED BotPure

\* the insert of the reply is answered with an error
BotReplyRefused(b) ==
  /\ \E k \in 1..Len(bot[b].replying) :
       bot' = [bot EXCEPT ![b].replying = Without(@, k), ![b].refused = TRUE]
  /\ UNCHANGED chats
  /\ UNCHANGED BotPure

\* nothing of the chatbot is in flight
Settled(c) ==
  /\ ~c.isLoadingHistory
  /\ c.saving = <<>> /\ c.timers = <<>> /\ c.replying = <<>>

\* the page is closed or refreshed once the chatbot has settled
BotClose(b) ==
  /\ bot[b].pc = "on" /\ Settled(bot[b])
  /\ bot' = [bot EXCEPT ![b] = BotOff]
  /\ UNCHANGED chats
  /\ UNCHANGED BotPure

NextChatStore ==
  \E b \in Bots :
    \/ BotMount(b) \/ BotHistoryData(b) \/ BotHistoryError(b) \/ BotType(b)
    \/ BotSend(b) \/ BotUserSaved(b) \/ BotUserRefused(b) \/ BotTimer(b)
    \/ BotReplySaved(b) \/ BotReplyRefused(b) \/ BotClose(b)

SpecChatStore == InitChatStore /\ [][NextChatStore]_vars

----------------------------------------------------------------------------
(* Properties of the chatbot and the chats table *)

\* the rows of the component's session, and those of them that hold the
\* user's messages and the replies
SessionRows(c) ==
  LET Mine(r) == r.session_id = c.sessionId IN SelectSeq(chats, Mine)

UserRows(c) ==
  LET OfUser(r) == r.is_user_message IN SelectSeq(SessionRows(c), OfUser)

ReplyRows(c) ==
  LET OfBot(r) == ~r.is_user_message IN SelectSeq(SessionRows(c), OfBot)

\* in every prefix of the session's rows the replies are no more than the
\* user's messages
UserRowFirst(c) ==
  \A n \in 1..Len(SessionRows(c)) :
    LET prefix == SubSeq(SessionRows(c), 1, n)
        OfUser(r) == r.is_user_message
        OfBot(r) == ~r.is_user_message
    IN Len(SelectSeq(prefix, OfBot)) <= Len(SelectSeq(prefix, OfUser))

\* a step leaves the rows the table holds as they are and adds at most one
AppendOnly ==
  /\ Len(chats') \in {Len(chats), Len(chats) + 1}
  /\ \A i \in 1..Len(chats) : chats'[i] = chats[i]

SavedTurns(c) ==
  LET OfUser(r) == r.user_id = c.userId IN SelectSeq(chats, OfUser)

\* C13: a chatbot mounted for a user whose earlier turns are saved shows,
\* once loadChatHistory has read the table, those turns in ascending
\* creation order in place of the welcome message.
C13_HistoryRestored ==
  \A b \in Bots :
    (/\ bot[b].pc = "on" /\ ~bot[b].isLoadingHistory /\ ~bot[b].loadFailed
     /\ bot[b].accepted = 0
     /\ SavedTurns(bot[b]) # <<>>)
      => bot[b].messages = LoadedMessages(SavedTurns(bot[b]))

\* C14: when the store answers a call with an error (here the insert of
\* saveChatMessage) the failure is shown to the user as a toast.
C14_FailureToasted ==
  \A b \in Bots :
    (bot[b].pc = "on" /\ bot[b].refused) => bot[b].toasts > 0

----------------------------------------------------------------------------
(* The read helpers of dbHelpers *)

InitReads ==
  /\ entries = <<>>
  /\ now = ClockStart
  /\ tzOffset = 0
  /\ stats = NoStats
  /\ values = <<>>
  /\ trend = Num(0)
  /\ input = <<>>
  /\ insight = NoInsight
  /\ streak = 0
  /\ rows = <<>>
  /\ sess = DashUnmounted
  /\ chats = <<>>
  /\ bot = BotUnmounted
  /\ store = EmptyStore
  /\ read = NoRead
  /\ scoreArg = NoData
  /\ score = NoScore
  /\ users = <<>>
  /\ pages = NoPages
  /\ memoryState = [toasts |-> <<>>]
  /\ toastTimeouts = <<>>
  /\ count = 0
  /\ manager = NoManager
  /\ dialog = ClosedDialog

ReadPure ==
  <<entries, now, tzOffset, stats, values, trend, input, insight, streak,
    sess, bot, scoreArg, score,
    users, pages, memoryState, toastTimeouts, count, manager, dialog>>

StoreSize ==
  Len(rows) + Len(chats) + Len(store.journals) + Len(store.journal_entries)
    + Len(store.user_profiles)

\* some user's component writes a row of its user
StoreInsert ==
  /\ StoreSize < MaxStoreRows
  /\ \E u \in Users :
       \/ /\ rows' = createHealthEntry(rows, SavePayload(EmptyForm, u, todayIsoDate(now)))
          /\ UNCHANGED <<chats, store>>
       \/ /\ \E sid \in ReadIds :
               chats' = saveChatMessage(chats,
                          [id |-> 0, user_id |-> u, session_id |-> sid,
                           message |-> <<"h", "i">>, is_user_message |-> TRUE,
                           user_message |-> <<>>])
          /\ UNCHANGED <<rows, store>>
       \/ /\ store' = [store EXCEPT !.journals =
                          InsertRow(@, [id |-> 0, user_id |-> u, journal_id |-> 0])]
          /\ UNCHANGED <<rows, chats>>
       \/ /\ \E j \in 1..Len(store.journals) :
               /\ store.journals[j].user_id = u
               /\ store' = [store EXCEPT !.journal_entries =
                              InsertRow(@, [id |-> 0, user_id |-> u,
                                            journal_id |-> store.journals[j].id])]
          /\ UNCHANGED <<rows, chats>>
       \/ /\ store' = [store EXCEPT !.user_profiles =
                          InsertRow(@, [id |-> 0, user_id |-> u, journal_id |-> 0])]
          /\ UNCHANGED <<rows, chats>>
  /\ UNCHANGED read
  /\ UNCHANGED ReadPure

\* a read helper is called on behalf of user u: with u's id where it
\* takes a user id, with any session id or journal id
ReadCall ==
  /\ \E u \in Users :
       \/ \E data \in getUserHealthEntries(rows, u) :
            read' = [helper |-> "getUserHealthEntries", caller |-> u,
                     arg |-> 0, data |-> data]
       \/ \E sid \in ReadIds \cup {0} :
            read' = [helper |-> "getChatHistory", caller |-> u, arg |-> sid,
                     data |-> getChatHistory(chats, u, sid)]
       \/ read' = [helper |-> "getUserJournals", caller |-> u, arg |-> 0,
                   data |-> getUserJournals(store.journals, u)]
       \/ read' = [helper |-> "getUserProfile", caller |-> u, arg |-> 0,
                   data |-> getUserProfile(store.user_profiles, u)]
       \/ \E jid \in ReadIds :
            read' = [helper |-> "getJournalEntries", caller |-> u, arg |-> jid,
                     data |-> getJournalEntries(store.journal_entries, jid)]
  /\ UNCHANGED <<rows, chats, store>>
  /\ UNCHANGED ReadPure

NextReads == StoreInsert \/ ReadCall

SpecReads == InitReads /\ [][NextReads]_vars

\* C15: a read helper called on behalf of user U returns only rows whose
\* user_id is U, whatever the tables hold and whatever id it is given.
C15_ReadsOnlyOwnRows ==
  \A i \in 1..Len(read.data) : read.data[i].user_id = read.caller

----------------------------------------------------------------------------
(* computeHealthScore applied to one snapshot *)

InitScore ==
  /\ entries = <<>>
  /\ now = ClockStart
  /\ tzOffset = 0
  /\ stats = NoStats
  /\ values = <<>>
  /\ trend = Num(0)
  /\ input = <<>>
  /\ insight = NoInsight
  /\ streak = 0
  /\ rows = <<>>
  /\ sess = DashUnmounted
  /\ chats = <<>>
  /\ bot = BotUnmounted
  /\ store = EmptyStore
  /\ read = NoRead
  /\ scoreArg \in [mood : ScoreMoods, sleep_hours : ScoreValues,
                   exercise_minutes : ScoreValues, water_intake : ScoreValues]
  /\ score = NoScore
  /\ users = <<>>
  /\ pages = NoPages
  /\ memoryState = [toasts |-> <<>>]
  /\ toastTimeouts = <<>>
  /\ count = 0
  /\ manager = NoManager
  /\ dialog = ClosedDialog

ScorePure ==
  <<entries, now, tzOffset, stats, values, trend, input, insight, streak,
    rows, sess, chats, bot, store, read,
    users, pages, memoryState, toastTimeouts, count, manager, dialog>>

\* computeHealthScore(data) with `data` given, so that `data || form` is data
ScoreCall ==
  /\ score = NoScore
  /\ score' = computeHealthScore(scoreArg)
  /\ UNCHANGED scoreArg
  /\ UNCHANGED ScorePure

NextScore == ScoreCall

SpecScore == InitScore /\ [][NextScore]_vars

\* the number a metric reads as, as numerator and denominator: 0 when it is
\* missing or empty
MetricOf(v) ==
  IF v.t = "number" THEN <<v.x.n, v.x.d>>
  ELSE IF v.t = "string" /\ v.s # ""
    THEN LET r == CHOOSE r \in Decimals : r.text = v.s IN <<r.num.n, r.num.d>>
  ELSE <<0, 1>>

\* the metric is a number, or is missing or empty
IsMetric(v) ==
  \/ v.t = "undefined"
  \/ v.t = "number" /\ v.x.k = "fin"
  \/ v.t = "string" /\ (v.s = "" \/ \E r \in Decimals : r.text = v.s)

\* min(metric / cap, 1) as numerator and denominator
ShareOf(v, cap) ==
  LET m == MetricOf(v)
  IN IF m[1] >= cap * m[2] THEN <<1, 1>> ELSE <<m[1], cap * m[2]>>

MoodScoreOf(mood) ==
  CASE mood = "excellent" -> 5
    [] mood = "good" -> 4
    [] mood = "neutral" -> 3
    [] mood = "poor" -> 2
    [] mood = "terrible" -> 1
    [] OTHER -> 3

\* round(mood/5*30 + min(sleep/8,1)*25 + min(exercise/120,1)*25
\*       + min(water/8,1)*20), halves rounded up, in integer arithmetic
ExpectedScore(data) ==
  LET s == ShareOf(data.sleep_hours, 8)
      e == ShareOf(data.exercise_minutes, 120)
      w == ShareOf(data.water_intake, 8)
      den == s[2] * e[2] * w[2]
      num == 6 * MoodScoreOf(data.mood) * den + 25 * s[1] * e[2] * w[2]
             + 25 * e[1] * s[2] * w[2] + 20 * w[1] * s[2] * e[2]
  IN (2 * num + den) \div (2 * den)

AtLeast(v, cap) == IsMetric(v) /\ MetricOf(v)[1] >= cap * MetricOf(v)[2]

C17_ScoreIsInteger ==
  score # NoScore =>
    /\ IsInteger(score)
    /\ score = Num(ExpectedScore(
         [mood |-> scoreArg.mood,
          sleep_hours |-> IF IsMetric(scoreArg.sleep_hours)
                            THEN scoreArg.sleep_hours ELSE JsUndef,
          exercise_minutes |-> IF IsMetric(scoreArg.exercise_minutes)
                                 THEN scoreArg.exercise_minutes ELSE JsUndef,
          water_intake |-> IF IsMetric(scoreArg.water_intake)
                             THEN scoreArg.water_intake ELSE JsUndef]))

\* C18: the analytic functions are deterministic in their arguments: as long
\* as the argument is the same, a later call returns what the earlier call
\* returned, whatever else (the clock, the form) has changed in between
C18_SameArgumentsSameResult ==
  [][/\ entries' = entries => streak' = streak
     /\ values' = values => trend' = trend
     /\ (input' = input /\ entries' = entries /\ insight # NoInsight
         /\ insight' # NoInsight) => insight' = insight
     /\ (scoreArg' = scoreArg /\ score # NoScore /\ score' # NoScore)
          => score' = score]_vars

\* a stored number as the metric it stands for: null counts as missing
StoredMetric(x) == IF x.k = "fin" THEN JsNum(x) ELSE JsUndef

StoredData(e) ==
  [mood |-> e.mood, sleep_hours |-> StoredMetric(e.sleep_hours),
   exercise_minutes |-> StoredMetric(e.exercise_minutes),
   water_intake |-> StoredMetric(e.water_intake)]

\* C19: no save writes a health score: the payload of a pending create or
\* update never carries health_score, no stored row has such a column, and
\* the saved score shown is the formula applied to the loaded entry's mood,
\* sleep_hours, exercise_minutes and water_intake
C19_ScoreNotPersisted ==
  /\ \A i \in 1..Len(rows) : "health_score" \notin DOMAIN rows[i]
  /\ \A s \in Sessions :
       /\ sess[s].pc = "write"
            => "health_score" \notin CallPayload(sess[s]).present
       /\ (sess[s].pc # "off" /\ sess[s].todayEntry # NoEntry)
            => storedScore(sess[s])
                 = Num(ExpectedScore(StoredData(sess[s].todayEntry)))

\* C19 witness: a filled form has been saved and reloaded, and the page shows
\* the score 74 of the stored entry beside it
C19_Witness ==
  \E s \in Sessions :
    /\ sess[s].pc = "idle"
    /\ sess[s].toast \in {"Saved Successfully", "Updated Successfully"}
    /\ sess[s].todayEntry # NoEntry
    /\ sess[s].todayEntry.mood = "good"
    /\ \E i \in 1..Len(rows) : rows[i] = sess[s].todayEntry
    /\ storedScore(sess[s]) = Num(74)

\* C20: the two score computations agree on a single day: for a history of
\* one entry the score AdvancedStats shows is computeHealthScore of that entry
C20_OneNormalizationBasis ==
  (Len(entries) = 1 /\ stats.shown)
    => stats.healthScore = computeHealthScore(EntryData(entries[1]))

----------------------------------------------------------------------------
(* The direction of the trends AdvancedStats shows *)

\* x < y for two finite numbers
Below(x, y) == x.n * y.d < y.n * x.d

\* the metric grows from each day to the next (entries are newest first)
Rising(metric(_)) ==
  /\ Len(entries) >= 2
  /\ \A i \in 1..(Len(entries) - 1) :
       Below(metric(entries[i + 1]), metric(entries[i]))

\* the metric shrinks from each day to the next
Falling(metric(_)) ==
  /\ Len(entries) >= 2
  /\ \A i \in 1..(Len(entries) - 1) :
       Below(metric(entries[i]), metric(entries[i + 1]))

IsNegative(t) == t.k = "ninf" \/ (t.k = "fin" /\ t.n < 0)
IsPositive(t) == t.k = "inf" \/ (t.k = "fin" /\ t.n > 0)

SleepHoursOf(e) == e.sleep_hours
ExerciseMinutesOf(e) == e.exercise_minutes
WaterIntakeOf(e) == e.water_intake

----------------------------------------------------------------------------
(* createUser, called by the home page and by the profile page *)

\* the user record both pages build from the signed-in user
UserData(id) == [id |-> id, email |-> id]

HasUser(table, id) == \E i \in 1..Len(table) : table[i].id = id

\* an insert that does not look for an existing row
usersInsertUnchecked(table, userData) ==
  [table |-> Append(table, userData), error |-> ""]

\* from('users').insert([userData]): the primary key rejects a second row
\* with the same id (23505)
usersInsert(table, userData) ==
  IF HasUser(table, userData.id) THEN [table |-> table, error |-> "23505"]
  ELSE [table |-> Append(table, userData), error |-> ""]

\* from('users').upsert(userData, { onConflict: 'id' })
usersUpsert(table, userData) ==
  IF HasUser(table, userData.id)
  THEN [table |-> [i \in 1..Len(table) |->
                     IF table[i].id = userData.id THEN userData ELSE table[i]],
        error |-> ""]
  ELSE [table |-> Append(table, userData), error |-> ""]

\* from('users').select('*').eq('id', id).single()
usersSingle(table, id) ==
  LET found == SelectSeq(table, LAMBDA r : r.id = id)
  IN IF Len(found) = 1 THEN [data |-> found[1].id, error |-> ""]
     ELSE [data |-> "", error |-> "PGRST116"]

InitUsers ==
  /\ entries = <<>>
  /\ now = ClockStart
  /\ tzOffset = 0
  /\ stats = NoStats
  /\ values = <<>>
  /\ trend = Num(0)
  /\ input = <<>>
  /\ insight = NoInsight
  /\ streak = 0
  /\ rows = <<>>
  /\ sess = DashUnmounted
  /\ chats = <<>>
  /\ bot = BotUnmounted
  /\ store = EmptyStore
  /\ read = NoRead
  /\ scoreArg = NoData
  /\ score = NoScore
  /\ users = <<>>
  /\ pages = NoPages
  /\ memoryState = [toasts |-> <<>>]
  /\ toastTimeouts = <<>>
  /\ count = 0
  /\ manager = NoManager
  /\ dialog = ClosedDialog

UsersPure ==
  <<entries, now, tzOffset, stats, values, trend, input, insight, streak,
    rows, sess, chats, bot, store, read, scoreArg, score,
    memoryState, toastTimeouts, count, manager, dialog>>

\* a page calls createUser for the signed-in user: the request leaves
PageCreateUser(p) ==
  /\ pages[p].pc \in {"idle", "done"}
  /\ pages[p].calls < MaxCalls
  /\ \E id \in Users, v \in {"insert", "upsert"} :
       pages' = [pages EXCEPT ![p] =
                   [pc |-> "write", variant |-> v, id |-> id,
                    existed |-> HasUser(users, id), error |-> "", data |-> "",
                    calls |-> @.calls + 1]]
  /\ UNCHANGED users
  /\ UNCHANGED UsersPure

\* the store executes the insert or the upsert and createUser reads the
\* result: a duplicate error of the insert leads to the lookup of the row
PageWrite(p) ==
  /\ pages[p].pc = "write"
  /\ LET c == pages[p]
         r == IF c.variant = "insert" THEN usersInsert(users, UserData(c.id))
              ELSE usersUpsert(users, UserData(c.id))
     IN /\ users' = r.table
        /\ pages' = [pages EXCEPT ![p] =
             IF r.error = "" THEN [c EXCEPT !.pc = "done", !.data = c.id]
             ELSE IF r.error \in {"23505", "PGRST116"}
               THEN [c EXCEPT !.pc = "lookup"]
             ELSE [c EXCEPT !.pc = "done", !.error = r.error]]
  /\ UNCHANGED UsersPure

\* the lookup of the existing row returns; createUser answers error: null
\* whether or not the row was found
PageLookup(p) ==
  /\ pages[p].pc = "lookup"
  /\ pages' = [pages EXCEPT ![p] =
                 [pages[p] EXCEPT !.pc = "done", !.error = "",
                                  !.data = usersSingle(users, pages[p].id).data]]
  /\ UNCHANGED users
  /\ UNCHANGED UsersPure

NextUsers ==
  \E p \in Pages : PageCreateUser(p) \/ PageWrite(p) \/ PageLookup(p)

SpecUsers == InitUsers /\ [][NextUsers]_vars

RowsOfUser(id) == SelectSeq(users, LAMBDA r : r.id = id)

----------------------------------------------------------------------------
(* The toast store: reducer, toast() and the removal timers *)

TOAST_LIMIT == 3

\* ADD_TOAST without the limit
ADD_TOAST_Unlimited(state, t) == [state EXCEPT !.toasts = <<t>> \o state.toasts]

\* reducer, ADD_TOAST: [action.toast, ...state.toasts].slice(0, TOAST_LIMIT)
ADD_TOAST(state, t) ==
  [state EXCEPT !.toasts = Slice(<<t>> \o state.toasts, 0, TOAST_LIMIT)]

\* reducer, UPDATE_TOAST: { ...t, ...action.toast } for the toast of that id
UPDATE_TOAST(state, id, variant) ==
  [state EXCEPT !.toasts =
     [i \in 1..Len(state.toasts) |->
        IF state.toasts[i].id = id
        THEN [state.toasts[i] EXCEPT !.variant = variant]
        ELSE state.toasts[i]]]

\* whether DISMISS_TOAST with this toastId (0: none given) is about toast t
Dismisses(toastId, t) == toastId = 0 \/ t.id = toastId

\* reducer, DISMISS_TOAST: the state it returns
DISMISS_TOAST(state, toastId) ==
  [state EXCEPT !.toasts =
     [i \in 1..Len(state.toasts) |->
        IF Dismisses(toastId, state.toasts[i])
        THEN [state.toasts[i] EXCEPT !.open = FALSE]
        ELSE state.toasts[i]]]

\* reducer, REMOVE_TOAST
REMOVE_TOAST(state, toastId) ==
  [state EXCEPT !.toasts =
     IF toastId # 0 THEN SelectSeq(state.toasts, LAMBDA t : t.id # toastId)
     ELSE <<>>]

HasTimeout(timeouts, toastId) ==
  \E i \in 1..Len(timeouts) : timeouts[i] = toastId

\* addToRemoveQueue: a timer unless the toast is persistent or has one
addToRemoveQueue(timeouts, toastId, persistent) ==
  IF persistent \/ HasTimeout(timeouts, toastId) THEN timeouts
  ELSE Append(timeouts, toastId)

\* DISMISS_TOAST's forEach: addToRemoveQueue for every toast it is about
RECURSIVE QueueDismissed(_, _, _, _)
QueueDismissed(toasts, i, timeouts, toastId) ==
  IF i > Len(toasts) THEN timeouts
  ELSE QueueDismissed(toasts, i + 1,
         IF Dismisses(toastId, toasts[i])
         THEN addToRemoveQueue(timeouts, toasts[i].id, toasts[i].persistent)
         ELSE timeouts,
         toastId)

InitToast ==
  /\ entries = <<>>
  /\ now = ClockStart
  /\ tzOffset = 0
  /\ stats = NoStats
  /\ values = <<>>
  /\ trend = Num(0)
  /\ input = <<>>
  /\ insight = NoInsight
  /\ streak = 0
  /\ rows = <<>>
  /\ sess = DashUnmounted
  /\ chats = <<>>
  /\ bot = BotUnmounted
  /\ store = EmptyStore
  /\ read = NoRead
  /\ scoreArg = NoData
  /\ score = NoScore
  /\ users = <<>>
  /\ pages = NoPages
  /\ memoryState = [toasts |-> <<>>]
  /\ toastTimeouts = <<>>
  /\ count = 0
  /\ manager = NoManager
  /\ dialog = ClosedDialog

ToastPure ==
  <<entries, now, tzOffset, stats, values, trend, input, insight, streak,
    rows, sess, chats, bot, store, read, scoreArg, score,
    users, pages, manager, dialog>>

\* toast(props): genId, ADD_TOAST, and the timer of a non-persistent toast
ToastShow ==
  /\ count < MaxToasts
  /\ \E persistent \in BOOLEAN :
       LET id == count + 1
       IN /\ count' = id
          /\ memoryState' =
               ADD_TOAST(memoryState,
                 [id |-> id, persistent |-> persistent, open |-> TRUE,
                  variant |-> "default"])
          /\ toastTimeouts' =
               IF ~persistent
               THEN addToRemoveQueue(toastTimeouts, id, persistent)
               ELSE toastTimeouts
  /\ UNCHANGED ToastPure

\* the update() of a toast handle
ToastUpdate ==
  /\ \E id \in 1..count :
       memoryState' = UPDATE_TOAST(memoryState, id, "success")
  /\ UNCHANGED <<toastTimeouts, count>>
  /\ UNCHANGED ToastPure

\* the dismiss() of a toast handle, or useToast().dismiss with or without id
ToastDismiss ==
  /\ \E toastId \in 0..count :
       /\ toastTimeouts' =
            QueueDismissed(memoryState.toasts, 1, toastTimeouts, toastId)
       /\ memoryState' = DISMISS_TOAST(memoryState, toastId)
  /\ UNCHANGED count
  /\ UNCHANGED ToastPure

\* the oldest removal timer fires: it leaves the map and removes its toast
ToastTimer ==
  /\ toastTimeouts # <<>>
  /\ toastTimeouts' = Tail(toastTimeouts)
  /\ memoryState' = REMOVE_TOAST(memoryState, Head(toastTimeouts))
  /\ UNCHANGED count
  /\ UNCHANGED ToastPure

NextToast == ToastShow \/ ToastUpdate \/ ToastDismiss \/ ToastTimer

SpecToast == InitToast /\ [][NextToast]_vars

\* the timers are real: each fires 4000 ms after it was set
SpecToastFair == SpecToast /\ WF_vars(ToastTimer)

ToastCount == Len(memoryState.toasts)

\* the first three of a sequence
FirstThree(s) == IF Len(s) <= 3 THEN s ELSE SubSeq(s, 1, 3)

\* C23: the toast list never holds more than 3 toasts; adding a toast puts
\* it first and keeps the first three of the result, and an update, a dismiss
\* or a removal never makes the list longer
C23_AtMostThreeToasts ==
  /\ [](ToastCount <= 3)
  /\ [][/\ count' # count =>
            /\ memoryState'.toasts[1].id = count'
            /\ memoryState'.toasts
                 = FirstThree(<<memoryState'.toasts[1]>> \o memoryState.toasts)
        /\ count' = count => Len(memoryState'.toasts) <= ToastCount]_vars

\* C23 witness: a fourth toast has been added while three were shown, and the
\* oldest of them is gone
C23_Witness ==
  /\ count = 4
  /\ ToastCount = 3
  /\ memoryState.toasts[1].id = 4
  /\ memoryState.toasts[3].id = 2

InList(id) == \E i \in 1..ToastCount : memoryState.toasts[i].id = id

\* the toast is in the list and is either non-persistent or dismissed
DueForRemoval(id) ==
  \E i \in 1..ToastCount :
    /\ memoryState.toasts[i].id = id
    /\ ~memoryState.toasts[i].persistent \/ ~memoryState.toasts[i].open

\* C24: a toast in the list that is non-persistent, or that has been
\* dismissed, is eventually out of the list, and no toast id has two pending
\* removal timers
C24_ToastsEventuallyRemoved ==
  /\ \A id \in 1..MaxToasts : DueForRemoval(id) ~> ~InList(id)
  /\ [](\A i, j \in 1..Len(toastTimeouts) :
           toastTimeouts[i] = toastTimeouts[j] => i = j)

----------------------------------------------------------------------------
(* The typing indicator of the chatbot *)

\* a user message was accepted and the timer of its reply has not fired
ReplyPending(c) == c.saving # <<>> \/ c.timers # <<>>

\* C25: isTyping is true in every state in which a reply is still pending,
\* whether the messages were sent by the button or by the Enter key
C25_TypingWhilePending ==
  \A b \in Bots : (bot[b].pc = "on" /\ ReplyPending(bot[b])) => bot[b].isTyping

----------------------------------------------------------------------------
(* JournalManager: the entries of the selected journal *)

\* two journals of the user, the first with one entry
TwoJournals ==
  [journals |-> <<[id |-> 1, user_id |-> "u1", journal_id |-> 0],
                  [id |-> 2, user_id |-> "u1", journal_id |-> 0]>>,
   journal_entries |-> <<[id |-> 1, user_id |-> "u1", journal_id |-> 1]>>,
   user_profiles |-> <<>>]

InitManager ==
  /\ entries = <<>>
  /\ now = ClockStart
  /\ tzOffset = 0
  /\ stats = NoStats
  /\ values = <<>>
  /\ trend = Num(0)
  /\ input = <<>>
  /\ insight = NoInsight
  /\ streak = 0
  /\ rows = <<>>
  /\ sess = DashUnmounted
  /\ chats = <<>>
  /\ bot = BotUnmounted
  /\ store = TwoJournals
  /\ read = NoRead
  /\ scoreArg = NoData
  /\ score = NoScore
  /\ users = <<>>
  /\ pages = NoPages
  /\ memoryState = [toasts |-> <<>>]
  /\ toastTimeouts = <<>>
  /\ count = 0
  /\ manager = NoManager
  /\ dialog = ClosedDialog

ManagerPure ==
  <<entries, now, tzOffset, stats, values, trend, input, insight, streak,
    rows, sess, chats, bot, read, scoreArg, score,
    users, pages, memoryState, toastTimeouts, count, dialog>>

\* the user picks a journal; the effect of selectedJournal calls
\* loadJournalEntries for it
ManagerSelect ==
  /\ manager.selects < MaxSelects
  /\ \E j \in 1..Len(store.journals) :
       /\ store.journals[j].id # manager.selectedJournal
       /\ manager' = [manager EXCEPT !.selectedJournal = store.journals[j].id,
                                     !.loads = Append(@, store.journals[j].id),
                                     !.selects = @ + 1]
  /\ UNCHANGED store
  /\ UNCHANGED ManagerPure

\* a getJournalEntries call returns, in any order: setEntries(data || [])
ManagerEntriesLoaded ==
  /\ \E k \in 1..Len(manager.loads) :
       manager' = [manager EXCEPT
                     !.entries = getJournalEntries(store.journal_entries,
                                                   manager.loads[k]),
                     !.loads = Without(@, k)]
  /\ UNCHANGED store
  /\ UNCHANGED ManagerPure

\* createEntry up to its await: the entry is for the journal selected now
ManagerCreateEntry ==
  /\ manager.selectedJournal # 0
  /\ Len(store.journal_entries) + Len(manager.creates) < MaxStoreRows
  /\ manager' = [manager EXCEPT !.creates = Append(@, manager.selectedJournal)]
  /\ UNCHANGED store
  /\ UNCHANGED ManagerPure

\* createJournalEntry returns the new row: setEntries(prev => [data, ...prev])
ManagerEntryCreated ==
  /\ \E k \in 1..Len(manager.creates) :
       LET table == InsertRow(store.journal_entries,
                      [id |-> 0, user_id |-> manager.userId,
                       journal_id |-> manager.creates[k]])
       IN /\ store' = [store EXCEPT !.journal_entries = table]
          /\ manager' = [manager EXCEPT
                           !.entries = <<table[Len(table)]>> \o @,
                           !.creates = Without(@, k)]
  /\ UNCHANGED ManagerPure

NextManager ==
  \/ ManagerSelect \/ ManagerEntriesLoaded \/ ManagerCreateEntry
  \/ ManagerEntryCreated

SpecManager == InitManager /\ [][NextManager]_vars

\* C26: once no load and no create is in flight, every journal entry shown
\* belongs to the journal that is selected
C26_EntriesOfSelectedJournal ==
  (manager.loads = <<>> /\ manager.creates = <<>>
   /\ manager.selectedJournal # 0)
    => \A i \in 1..Len(manager.entries) :
         manager.entries[i].journal_id = manager.selectedJournal

----------------------------------------------------------------------------
(* EntryDialog: the form and its submit *)

\* an entry the dialog may be opened with
DialogEntry ==
  [id |-> 1, user_id |-> "u1", entry_date |-> 2, mood |-> "good",
   symptoms |-> "", notes |-> "", sleep_hours |-> Rat(15, 2),
   water_intake |-> Num(8), exercise_minutes |-> Num(30),
   energy_level |-> NullNum, stress_level |-> NullNum]

\* text.trim() of the texts the dialog holds
trim(text) == IF text = " rest " THEN "rest" ELSE text

\* x || 0 for a number: 0 for NaN and for 0
NumberOrZero(x) == IF x.k = "nan" \/ (x.k = "fin" /\ x.n = 0) THEN Num(0) ELSE x

\* a sleep check that lets every text pass
SleepRejectedNever(text) == FALSE

\* parseFloat(sleepHours) < 0 || parseFloat(sleepHours) > 24
SleepRejected(text) ==
  JsLess(parseFloat(text), Num(0)) \/ JsLess(Num(24), parseFloat(text))

\* parseFloat(text) < 0
NegativeRejected(text) == JsLess(parseFloat(text), Num(0))

\* the alert handleSubmit shows, "" when the form passes
SubmitAlert(d) ==
  IF d.mood = "" THEN "Please select a mood"
  ELSE IF SleepRejected(d.sleepHours) THEN "Sleep hours must be between 0 and 24"
  ELSE IF NegativeRejected(d.waterIntake) THEN "Water intake cannot be negative"
  ELSE IF NegativeRejected(d.exerciseMinutes)
    THEN "Exercise minutes cannot be negative"
  ELSE ""

\* the record handleSubmit hands to onSave
SubmitRecord(d) ==
  [present |-> {"entry_date", "symptoms", "notes", "sleep_hours",
                "water_intake", "exercise_minutes"},
   entry_date |-> d.date,
   mood |-> "",
   symptoms |-> trim(d.symptoms),
   notes |-> trim(d.notes),
   sleep_hours |-> NumberOrZero(parseFloat(d.sleepHours)),
   water_intake |-> NumberOrZero(parseFloat(d.waterIntake)),
   exercise_minutes |-> NumberOrZero(parseFloat(d.exerciseMinutes))]

InitDialog ==
  /\ entries = <<>>
  /\ now = ClockStart
  /\ tzOffset = 0
  /\ stats = NoStats
  /\ values = <<>>
  /\ trend = Num(0)
  /\ input = <<>>
  /\ insight = NoInsight
  /\ streak = 0
  /\ rows = <<>>
  /\ sess = DashUnmounted
  /\ chats = <<>>
  /\ bot = BotUnmounted
  /\ store = EmptyStore
  /\ read = NoRead
  /\ scoreArg = NoData
  /\ score = NoScore
  /\ users = <<>>
  /\ pages = NoPages
  /\ memoryState = [toasts |-> <<>>]
  /\ toastTimeouts = <<>>
  /\ count = 0
  /\ manager = NoManager
  /\ dialog = ClosedDialog

DialogPure ==
  <<entries, now, tzOffset, stats, values, trend, input, insight, streak,
    rows, sess, chats, bot, store, read, scoreArg, score,
    users, pages, memoryState, toastTimeouts, count, manager>>

\* the parent opens the dialog, for a new entry (entry 0) or for an existing
\* one; the effect of [entry, open] fills or resets the form
DialogOpen ==
  /\ ~dialog.open
  /\ \/ dialog' =
          [ClosedDialog EXCEPT
             !.open = TRUE, !.entry = DialogEntry.id,
             !.date = DialogEntry.entry_date,
             !.mood = DialogEntry.mood, !.symptoms = DialogEntry.symptoms,
             !.notes = DialogEntry.notes,
             !.sleepHours = NumberToString(DialogEntry.sleep_hours),
             !.waterIntake = NumberToString(DialogEntry.water_intake),
             !.exerciseMinutes = NumberToString(DialogEntry.exercise_minutes)]
     \/ dialog' = [ClosedDialog EXCEPT !.open = TRUE,
                                       !.date = todayIsoDate(now)]
  /\ UNCHANGED DialogPure

\* the parent closes the dialog
DialogClose ==
  /\ dialog.open
  /\ dialog' = ClosedDialog
  /\ UNCHANGED DialogPure

\* the user picks a mood or types into a field
DialogChange ==
  /\ dialog.open
  /\ \/ \E m \in {"good", "poor"} :
          dialog' = [dialog EXCEPT !.mood = m, !.onSave = NoSave, !.alert = ""]
     \/ \E t \in DialogNotes :
          dialog' = [dialog EXCEPT !.symptoms = t, !.onSave = NoSave,
                                   !.alert = ""]
     \/ \E t \in DialogTexts :
          \/ dialog' = [dialog EXCEPT !.sleepHours = t, !.onSave = NoSave,
                                      !.alert = ""]
          \/ dialog' = [dialog EXCEPT !.waterIntake = t, !.onSave = NoSave,
                                      !.alert = ""]
          \/ dialog' = [dialog EXCEPT !.exerciseMinutes = t, !.onSave = NoSave,
                                      !.alert = ""]
  /\ UNCHANGED DialogPure

\* handleSubmit: an alert and nothing else, or onSave with the record
DialogSubmit ==
  /\ dialog.open
  /\ dialog' =
       IF SubmitAlert(dialog) # ""
       THEN [dialog EXCEPT !.alert = SubmitAlert(dialog), !.onSave = NoSave]
       ELSE [dialog EXCEPT !.alert = "", !.onSave = SubmitRecord(dialog)]
  /\ UNCHANGED DialogPure

NextDialog == DialogOpen \/ DialogClose \/ DialogChange \/ DialogSubmit

SpecDialog == InitDialog /\ [][NextDialog]_vars

\* the last event called onSave
Saved == dialog.onSave.present # {}

\* the seven fields of the form
FormOf(d) ==
  <<d.date, d.mood, d.symptoms, d.notes, d.sleepHours, d.waterIntake,
    d.exerciseMinutes>>

\* the texts of the dialog that are empty or not a number
Unparsable == {"", "abc"}

\* C27: handleSubmit calls onSave only with a mood selected, and the record
\* has sleep_hours within 0..24 and water_intake and exercise_minutes not
\* below 0, all three numbers, 0 for a field that is empty or not a number;
\* a submit that fails validation calls nothing and leaves the form as it is
C27_SubmitValidates ==
  /\ [](Saved =>
          /\ dialog.mood # ""
          /\ dialog.onSave.sleep_hours.k = "fin"
          /\ dialog.onSave.sleep_hours.n >= 0
          /\ dialog.onSave.sleep_hours.n <= 24 * dialog.onSave.sleep_hours.d
          /\ dialog.onSave.water_intake.k = "fin"
          /\ dialog.onSave.water_intake.n >= 0
          /\ dialog.onSave.exercise_minutes.k = "fin"
          /\ dialog.onSave.exercise_minutes.n >= 0
          /\ dialog.sleepHours \in Unparsable
               => dialog.onSave.sleep_hours = Num(0)
          /\ dialog.waterIntake \in Unparsable
               => dialog.onSave.water_intake = Num(0)
          /\ dialog.exerciseMinutes \in Unparsable
               => dialog.onSave.exercise_minutes = Num(0))
  /\ [][dialog'.alert # "" =>
          /\ FormOf(dialog') = FormOf(dialog)
          /\ dialog'.onSave = NoSave]_vars

\* C27 witness: a form with a mood, a sleep text that is not a number and an
\* empty water field has been submitted and handed over with zeros
C27_Witness ==
  /\ Saved
  /\ dialog.mood = "good"
  /\ dialog.sleepHours = "abc" /\ dialog.waterIntake = ""
  /\ dialog.exerciseMinutes = "30"
  /\ dialog.onSave.sleep_hours = Num(0)
  /\ dialog.onSave.exercise_minutes = Num(30)

\* C28: the record handed to onSave carries every value of the form,
\* the selected mood included
C28_RecordCarriesForm ==
  Saved =>
    /\ "mood" \in dialog.onSave.present
    /\ dialog.onSave.mood = dialog.mood
    /\ dialog.onSave.entry_date = dialog.date
    /\ dialog.onSave.symptoms = trim(dialog.symptoms)

----------------------------------------------------------------------------
(* The end of every save on the dashboard *)

\* C29: every handleSave ends with saving = false and loading = false,
\* whether the write and the reload succeed or fail; a session that is not
\* in a save or a load has both flags off, and while saving is true no
\* second save replaces the one in flight
C29_SaveTerminates ==
  /\ \A s \in Sessions :
       sess[s].saving ~> (~sess[s].saving /\ ~sess[s].loading)
  /\ [](\A s \in Sessions :
          /\ sess[s].pc = "idle" => (~sess[s].saving /\ ~sess[s].loading)
          /\ sess[s].saving => sess[s].pc \in {"write", "reload"})
  /\ [][\A s \in Sessions :
          (sess[s].saving /\ sess'[s].saving) => sess'[s].call = sess[s].call]_vars

\* C29 witness: a save whose write failed has ended with the failure toast
\* and both flags off
C29_Witness ==
  \E s \in Sessions :
    /\ sess[s].pc = "idle"
    /\ sess[s].toast = "Save failed"
    /\ ~sess[s].saving /\ ~sess[s].loading

----------------------------------------------------------------------------
(* The day streak and the caller's UTC offset *)

\* C30: whatever the caller's UTC offset, an entry dated the caller's local
\* today is normalized to the same local midnight as `today` (a day
\* difference of 0), and a most recent entry dated the local yesterday keeps
\* the streak alive
C30_StreakIgnoresOffset ==
  Len(entries) > 0 =>
    /\ MostRecentDay = LocalToday
         => SetHoursZero(ParseDate(MostRecentDay), tzOffset)
              = SetHoursZero(now, tzOffset)
    /\ MostRecentDay = LocalToday - 1 => streak >= 1

====
